---- MODULE Spec2Model ----
(***************************************************************************)
(* Batch File Renamer: the zustand store of src/src/store/index.ts.        *)
(* File names and every other user-visible string are sequences of         *)
(* one-character strings, so that slicing, searching and case mapping are  *)
(* computed as the code computes them.  Identifiers, operation kinds and   *)
(* messages are atomic strings.                                            *)
(***************************************************************************)
EXTENDS Integers, Sequences, FiniteSets, TLC

VARIABLES files, operations, history, historyIndex, now, heap

vars == <<files, operations, history, historyIndex, now, heap>>

(***************************************************************************)
(* Bounds of the model.                                                    *)
(***************************************************************************)
MaxFiles == 2
MaxHistory == 3
MaxEvalFiles == 3
MaxRenameFiles == 2
MaxSnapshots == 4

\* maxHistoryLength: 50 (initial store state)
maxHistoryLength == 50

(***************************************************************************)
(* JavaScript string primitives on character sequences.                    *)
(***************************************************************************)
LowerChars == <<"a","b","c","d","e","f","g","h","i","j","k","l","m",
                "n","o","p","q","r","s","t","u","v","w","x","y","z">>
UpperChars == <<"A","B","C","D","E","F","G","H","I","J","K","L","M",
                "N","O","P","Q","R","S","T","U","V","W","X","Y","Z">>
DigitChars == <<"0","1","2","3","4","5","6","7","8","9">>

Range(s) == {s[i] : i \in DOMAIN s}

\* String.prototype.toLowerCase on one character
toLowerChar(c) ==
    IF \E i \in DOMAIN UpperChars : UpperChars[i] = c
    THEN LowerChars[CHOOSE i \in DOMAIN UpperChars : UpperChars[i] = c]
    ELSE c

\* String.prototype.toUpperCase on one character
toUpperChar(c) ==
    IF \E i \in DOMAIN LowerChars : LowerChars[i] = c
    THEN UpperChars[CHOOSE i \in DOMAIN LowerChars : LowerChars[i] = c]
    ELSE c

toLowerCase(s) == [i \in 1..Len(s) |-> toLowerChar(s[i])]
toUpperCase(s) == [i \in 1..Len(s) |-> toUpperChar(s[i])]

\* s.slice(from) for a 0-based from >= 0
SliceFrom(s, from) == IF from >= Len(s) THEN <<>> ELSE SubSeq(s, from + 1, Len(s))

\* the 0-based index a negative/positive slice argument resolves to
SliceIndex(s, k) == IF k < 0 THEN (IF Len(s) + k < 0 THEN 0 ELSE Len(s) + k)
                    ELSE (IF k > Len(s) THEN Len(s) ELSE k)

\* s.slice(a, b) with JavaScript's treatment of negative and large indices
Slice(s, a, b) ==
    LET from == SliceIndex(s, a)
        to == SliceIndex(s, b)
    IN IF to <= from THEN <<>> ELSE SubSeq(s, from + 1, to)

\* s.lastIndexOf(c), 0-based, -1 when absent
lastIndexOf(s, c) ==
    IF \E i \in DOMAIN s : s[i] = c
    THEN (CHOOSE i \in DOMAIN s : s[i] = c /\ \A j \in DOMAIN s : s[j] = c => j <= i) - 1
    ELSE -1

\* whether pat occurs in s at 1-based position i (ci: ignoring case)
MatchAt(s, pat, i, ci) ==
    /\ i >= 1
    /\ i + Len(pat) - 1 <= Len(s)
    /\ \A k \in 1..Len(pat) :
          IF ci THEN toLowerChar(s[i + k - 1]) = toLowerChar(pat[k])
                ELSE s[i + k - 1] = pat[k]

\* 1-based position of the first occurrence of pat in s at or after from, 0 if none
IndexFrom(s, pat, from, ci) ==
    LET hits == {i \in from..(Len(s) + 1) : MatchAt(s, pat, i, ci)}
    IN IF hits = {} THEN 0 ELSE CHOOSE i \in hits : \A j \in hits : i <= j

\* s.includes(pat)
includes(s, pat) == IndexFrom(s, pat, 1, FALSE) # 0

\* s.startsWith(pat)
startsWith(s, pat) == MatchAt(s, pat, 1, FALSE)

\* s with the occurrence of pat at 1-based position i replaced by rep (i = 0: none)
ReplaceAt(s, pat, rep, i) ==
    IF i = 0 THEN s
    ELSE SubSeq(s, 1, i - 1) \o rep \o SubSeq(s, i + Len(pat), Len(s))

\* s.replace(pat, rep) with a string pattern (first occurrence), or with an
\* escaped literal pattern under flag i (ci)
ReplaceFirst(s, pat, rep, ci) == ReplaceAt(s, pat, rep, IndexFrom(s, pat, 1, ci))

\* s.split(pat).join(rep), or s.replace(/escaped pat/g[i], rep), pat non-empty
RECURSIVE ReplaceAll(_, _, _, _)
ReplaceAll(s, pat, rep, ci) ==
    LET i == IndexFrom(s, pat, 1, ci)
    IN IF i = 0 \/ Len(pat) = 0 THEN s
       ELSE SubSeq(s, 1, i - 1) \o rep
              \o ReplaceAll(SubSeq(s, i + Len(pat), Len(s)), pat, rep, ci)

\* Number.prototype.toString for a natural number
RECURSIVE NatToString(_)
NatToString(n) ==
    IF n < 10 THEN <<DigitChars[n + 1]>>
    ELSE NatToString(n \div 10) \o <<DigitChars[(n % 10) + 1]>>

\* Number.prototype.toString for an integer
numToString(n) == IF n < 0 THEN <<"-">> \o NatToString(0 - n) ELSE NatToString(n)

\* s.padStart(targetLength, '0')
padStart(s, targetLength) ==
    IF targetLength <= Len(s) THEN s
    ELSE [i \in 1..(targetLength - Len(s)) |-> "0"] \o s

\* the characters matched by \s that the model's alphabet contains: the
\* space and the tab
IsSpace(c) == c = " " \/ c = "\t"

\* s.trim()
RECURSIVE trim(_)
trim(s) ==
    IF s = <<>> THEN s
    ELSE IF IsSpace(s[1]) THEN trim(Tail(s))
    ELSE IF IsSpace(s[Len(s)]) THEN trim(SubSeq(s, 1, Len(s) - 1))
    ELSE s


IsLowerChar(c) == \E i \in DOMAIN LowerChars : LowerChars[i] = c
IsUpperChar(c) == \E i \in DOMAIN UpperChars : UpperChars[i] = c
IsDigitChar(c) == \E i \in DOMAIN DigitChars : DigitChars[i] = c
\* [a-zA-Z0-9]
IsAlnum(c) == IsLowerChar(c) \/ IsUpperChar(c) \/ IsDigitChar(c)
\* \w
IsWordChar(c) == IsAlnum(c) \/ c = "_"

\* s.replace(/\s+/g, rep)
RECURSIVE CollapseSpaces(_, _)
CollapseSpaces(s, rep) ==
    IF s = <<>> THEN <<>>
    ELSE IF IsSpace(s[1])
         THEN IF Len(s) > 1 /\ IsSpace(s[2]) THEN CollapseSpaces(Tail(s), rep)
              ELSE rep \o CollapseSpaces(Tail(s), rep)
         ELSE <<s[1]>> \o CollapseSpaces(Tail(s), rep)

\* s.replace(/\s/g, rep)
RECURSIVE ReplaceSpaces(_, _)
ReplaceSpaces(s, rep) ==
    IF s = <<>> THEN <<>>
    ELSE (IF IsSpace(s[1]) THEN rep ELSE <<s[1]>>) \o ReplaceSpaces(Tail(s), rep)

\* s.split('').filter(c => !chars.includes(c)).join('')
RemoveListed(s, chars) == SelectSeq(s, LAMBDA c : c \notin Range(chars))

(***************************************************************************)
(* Regular expressions.  The model covers patterns that are literal text   *)
(* (no metacharacter) and patterns that do not compile; flags are a        *)
(* sequence of flag letters.                                               *)
(***************************************************************************)
RegexMetaChars == {".", "*", "+", "?", "^", "$", "{", "}", "(", ")", "|", "[", "]", "\\"}
RegexFlagChars == {"d", "g", "i", "m", "s", "u", "v", "y"}

\* new RegExp(pattern, flags) does not throw
RegExpCompiles(pattern, flags) ==
    /\ Range(pattern) \cap RegexMetaChars = {}
    /\ Range(flags) \subseteq RegexFlagChars
    /\ \A i, j \in DOMAIN flags : flags[i] = flags[j] => i = j
    /\ ~({"u", "v"} \subseteq Range(flags))

\* name.replace(new RegExp(pattern, flags), replacement) for a compiling pattern
RegExpReplace(name, pattern, flags, replacement) ==
    IF "g" \in Range(flags)
    THEN ReplaceAll(name, pattern, replacement, "i" \in Range(flags))
    ELSE ReplaceFirst(name, pattern, replacement, "i" \in Range(flags))

(***************************************************************************)
(* Transformers                                                            *)
(***************************************************************************)
applyFindReplace(name, config) ==
    IF config.find = <<>> THEN name
    ELSE IF config.useRegex
    THEN LET flags == IF config.caseSensitive THEN <<"g">> ELSE <<"g", "i">>
             used == IF config.replaceAll THEN flags ELSE SelectSeq(flags, LAMBDA c : c # "g")
         IN IF RegExpCompiles(config.find, used)
            THEN RegExpReplace(name, config.find, used, config.replace)
            ELSE name
    ELSE IF config.caseSensitive
    THEN IF config.replaceAll
         THEN ReplaceAll(name, config.find, config.replace, FALSE)
         ELSE ReplaceFirst(name, config.find, config.replace, FALSE)
    ELSE IF config.replaceAll
         THEN ReplaceAll(name, config.find, config.replace, TRUE)
         ELSE ReplaceFirst(name, config.find, config.replace, TRUE)

CounterToken == <<"[", "N", "]">>

applyPrefixSuffix(name, config, index) ==
    LET num == config.counterStart + (index * config.counterStep)
        paddedNum == padStart(numToString(num), config.counterPadding)
        replaced == ReplaceFirst(config.text, CounterToken, paddedNum, FALSE)
        text1 == IF replaced = <<>> THEN paddedNum ELSE replaced
        text2 == IF ~includes(text1, paddedNum) THEN text1 \o paddedNum ELSE text1
        text == IF config.addCounter THEN text2 ELSE config.text
    IN IF config.position = "prefix" THEN text \o name ELSE name \o text

applyRemoveChars(name, config) ==
    CASE config.mode = "first-n" -> Slice(name, config.count, Len(name))
      [] config.mode = "last-n" ->
            Slice(name, 0, IF config.count = 0 THEN Len(name) ELSE 0 - config.count)
      [] config.mode = "range" ->
            Slice(name, 0, config.startIndex) \o Slice(name, config.endIndex, Len(name))
      [] config.mode = "specific" -> RemoveListed(name, config.characters)
      [] config.mode = "pattern" ->
            IF RegExpCompiles(config.pattern, <<"g">>)
            THEN RegExpReplace(name, config.pattern, <<"g">>, <<>>)
            ELSE name
      [] OTHER -> name

\* name.replace(/\w\S*/g, txt => txt.charAt(0).toUpperCase() + txt.substring(1).toLowerCase())
RECURSIVE TitleCase(_, _)
TitleCase(s, inWord) ==
    IF s = <<>> THEN <<>>
    ELSE IF inWord
         THEN IF IsSpace(s[1]) THEN <<s[1]>> \o TitleCase(Tail(s), FALSE)
              ELSE <<toLowerChar(s[1])>> \o TitleCase(Tail(s), TRUE)
         ELSE IF IsWordChar(s[1]) THEN <<toUpperChar(s[1])>> \o TitleCase(Tail(s), TRUE)
              ELSE <<s[1]>> \o TitleCase(Tail(s), FALSE)

\* length of the maximal run of non-alphanumeric characters at the head of s
RECURSIVE NonAlnumRun(_)
NonAlnumRun(s) ==
    IF s = <<>> \/ IsAlnum(s[1]) THEN 0 ELSE 1 + NonAlnumRun(Tail(s))

\* s.replace(/[^a-zA-Z0-9]+(.)/g, (_, char) => char.toUpperCase())
RECURSIVE CamelJoin(_)
CamelJoin(s) ==
    IF s = <<>> THEN <<>>
    ELSE LET run == NonAlnumRun(s)
         IN IF run = 0 THEN <<s[1]>> \o CamelJoin(Tail(s))
            ELSE IF run < Len(s)
                 THEN <<toUpperChar(s[run + 1])>> \o CamelJoin(SliceFrom(s, run + 1))
            ELSE IF run > 1 THEN <<toUpperChar(s[run])>>
            ELSE s

\* s.replace(/([a-z])([A-Z])/g, '$1' + sep + '$2')
RECURSIVE SplitHumps(_, _)
SplitHumps(s, sep) ==
    IF Len(s) < 2 THEN s
    ELSE IF IsLowerChar(s[1]) /\ IsUpperChar(s[2])
         THEN <<s[1]>> \o sep \o <<s[2]>> \o SplitHumps(SliceFrom(s, 2), sep)
         ELSE <<s[1]>> \o SplitHumps(Tail(s), sep)

\* snake_case and kebab-case with their separator character
Separated(name, sepChar) ==
    LET a == CollapseSpaces(name, <<sepChar>>)
        b == SplitHumps(a, <<sepChar>>)
        c == [i \in 1..Len(b) |-> IF IsAlnum(b[i]) \/ b[i] = sepChar THEN b[i] ELSE sepChar]
    IN toLowerCase(c)

applyCaseChange(name, config) ==
    CASE config.caseType = "uppercase" -> toUpperCase(name)
      [] config.caseType = "lowercase" -> toLowerCase(name)
      [] config.caseType = "titlecase" -> TitleCase(name, FALSE)
      [] config.caseType = "sentencecase" ->
            toUpperCase(Slice(name, 0, 1)) \o toLowerCase(SliceFrom(name, 1))
      [] config.caseType = "camelCase" -> CamelJoin(toLowerCase(name))
      [] config.caseType = "snake_case" -> Separated(name, "_")
      [] config.caseType = "kebab-case" -> Separated(name, "-")
      [] OTHER -> name

\* applyNumbering that counts positions from 1
applyNumberingFromOne(name, config, index) ==
    LET num == config.startNumber + ((index + 1) * config.step)
        paddedNum == padStart(numToString(num), config.padding)
        formatted == ReplaceFirst(config.format, CounterToken, paddedNum, FALSE)
    IN CASE config.position = "prefix" -> formatted \o config.separator \o name
         [] config.position = "suffix" -> name \o config.separator \o formatted
         [] config.position = "replace" -> formatted
         [] OTHER -> name

applyNumbering(name, config, index) ==
    LET num == config.startNumber + (index * config.step)
        paddedNum == padStart(numToString(num), config.padding)
        formatted == ReplaceFirst(config.format, CounterToken, paddedNum, FALSE)
    IN CASE config.position = "prefix" -> formatted \o config.separator \o name
         [] config.position = "suffix" -> name \o config.separator \o formatted
         [] config.position = "replace" -> formatted
         [] OTHER -> name

\* new Date(t): the calendar fields of a timestamp, t counted in seconds
\* from 2026-11-01 00:00:00 local time, within that month
DateOf(t) ==
    [year |-> 2026, month |-> 11, date |-> 1 + (t \div 86400),
     hours |-> (t \div 3600) % 24, minutes |-> (t \div 60) % 60, seconds |-> t % 60]

\* Object.entries(tokens): the tokens in the order the loop visits them
DateTokens(date) ==
    << [token |-> <<"Y","Y","Y","Y">>, value |-> numToString(date.year)],
       [token |-> <<"Y","Y">>, value |-> Slice(numToString(date.year), -2, 4)],
       [token |-> <<"M","M">>, value |-> padStart(numToString(date.month), 2)],
       [token |-> <<"D","D">>, value |-> padStart(numToString(date.date), 2)],
       [token |-> <<"H","H">>, value |-> padStart(numToString(date.hours), 2)],
       [token |-> <<"m","m">>, value |-> padStart(numToString(date.minutes), 2)],
       [token |-> <<"s","s">>, value |-> padStart(numToString(date.seconds), 2)] >>

\* for (const [token, value] of ...) result = result.replace(token, value)
RECURSIVE ReplaceTokens(_, _)
ReplaceTokens(result, tokens) ==
    IF tokens = <<>> THEN result
    ELSE ReplaceTokens(ReplaceFirst(result, tokens[1].token, tokens[1].value, FALSE),
                       Tail(tokens))

formatDate(date, format) == ReplaceTokens(format, DateTokens(date))

\* applyDateTime that takes the current time whatever the source
applyDateTimeOfNow(name, config, file, clock) ==
    LET formatted == formatDate(DateOf(clock), config.format)
    IN CASE config.position = "prefix" -> formatted \o config.separator \o name
         [] config.position = "suffix" -> name \o config.separator \o formatted
         [] config.position = "replace" -> formatted
         [] OTHER -> name

\* file is the raw File (name, lastModified); clock is what new Date() reads
applyDateTime(name, config, file, clock) ==
    LET date == IF config.source \in {"modified", "created"}
                THEN DateOf(file.lastModified)
                ELSE DateOf(clock)
        formatted == formatDate(date, config.format)
    IN CASE config.position = "prefix" -> formatted \o config.separator \o name
         [] config.position = "suffix" -> name \o config.separator \o formatted
         [] config.position = "replace" -> formatted
         [] OTHER -> name

\* applyRegex whose catch returns the empty string
applyRegexBlank(name, config) ==
    IF config.pattern = <<>> THEN name
    ELSE IF RegExpCompiles(config.pattern, config.flags)
         THEN RegExpReplace(name, config.pattern, config.flags, config.replacement)
         ELSE <<>>

applyRegex(name, config) ==
    IF config.pattern = <<>> THEN name
    ELSE IF RegExpCompiles(config.pattern, config.flags)
         THEN RegExpReplace(name, config.pattern, config.flags, config.replacement)
         ELSE name

applyTrim(name, config) ==
    LET r1 == IF config.trimSpaces THEN trim(name) ELSE name
        r2 == IF config.removeDuplicateSpaces THEN CollapseSpaces(r1, <<" ">>) ELSE r1
        r3 == IF config.removeSpecialChars /\ config.specialCharsToRemove # <<>>
              THEN RemoveListed(r2, config.specialCharsToRemove) ELSE r2
    IN IF config.replaceSpacesWith # <<>> THEN ReplaceSpaces(r3, config.replaceSpacesWith)
       ELSE r3

\* newExtension with its leading dot normalised
DotNormalised(newExtension) ==
    IF startsWith(newExtension, <<".">>) THEN newExtension ELSE <<".">> \o newExtension

applyExtension(extension, config) ==
    CASE config.action = "change" -> DotNormalised(config.newExtension)
      [] config.action = "add" -> extension \o DotNormalised(config.newExtension)
      [] config.action = "remove" -> <<>>
      [] config.action = "lowercase" -> toLowerCase(extension)
      [] config.action = "uppercase" -> toUpperCase(extension)
      [] OTHER -> extension


(***************************************************************************)
(* Pipeline evaluation                                                     *)
(***************************************************************************)
\* errorMessage?: string, when absent
undefined == "undefined"

\* the length from which no engine builds a string: padStart to such a
\* length throws RangeError (V8 stops at 2^29 - 24, SpiderMonkey at 2^30 - 2)
StringLengthLimit == 1073741824

\* the dispatch of processFileName throws: a transformer calls a string
\* method on a config field that is absent, or pads a counter to a length
\* no string can have
Throws(op) ==
    LET has(f) == f \in DOMAIN op.config
    IN CASE op.type \in {"prefix", "suffix"} ->
               /\ has("addCounter") /\ op.config.addCounter
               /\ \/ ~has("text")
                  \/ has("counterPadding") /\ op.config.counterPadding >= StringLengthLimit
         [] op.type = "remove-chars" ->
               has("mode") /\ op.config.mode = "specific" /\ ~has("characters")
         [] op.type = "numbering" ->
               \/ ~has("format")
               \/ has("padding") /\ op.config.padding >= StringLengthLimit
         [] op.type = "date-time" -> ~has("format")
         [] op.type = "extension" ->
               has("action") /\ op.config.action \in {"change", "add"} /\ ~has("newExtension")
         [] OTHER -> FALSE

\* one case of the switch of processFileName that assigns name
ApplyToName(op, name, file, index, clock) ==
    CASE op.type = "find-replace" -> applyFindReplace(name, op.config)
      [] op.type \in {"prefix", "suffix"} -> applyPrefixSuffix(name, op.config, index)
      [] op.type = "remove-chars" -> applyRemoveChars(name, op.config)
      [] op.type = "case-change" -> applyCaseChange(name, op.config)
      [] op.type = "numbering" -> applyNumbering(name, op.config, index)
      [] op.type = "date-time" -> applyDateTime(name, op.config, file.originalFile, clock)
      [] op.type = "regex" -> applyRegex(name, op.config)
      [] op.type = "trim" -> applyTrim(name, op.config)
      [] OTHER -> name

\* the loop of processFileName without its test of op.enabled
RECURSIVE FoldOperationsAll(_, _, _, _, _, _)
FoldOperationsAll(ops, name, extension, file, index, clock) ==
    IF ops = <<>>
    THEN [thrown |-> FALSE, type |-> "", name |-> name, extension |-> extension]
    ELSE LET op == Head(ops)
         IN IF Throws(op)
            THEN [thrown |-> TRUE, type |-> op.type, name |-> name, extension |-> extension]
            ELSE IF op.type = "extension"
            THEN FoldOperationsAll(Tail(ops), name, applyExtension(extension, op.config),
                                   file, index, clock)
            ELSE FoldOperationsAll(Tail(ops), ApplyToName(op, name, file, index, clock),
                                   extension, file, index, clock)

\* the loop of processFileName that ends at the first disabled operation
RECURSIVE FoldOperationsUntilDisabled(_, _, _, _, _, _)
FoldOperationsUntilDisabled(ops, name, extension, file, index, clock) ==
    IF ops = <<>>
    THEN [thrown |-> FALSE, type |-> "", name |-> name, extension |-> extension]
    ELSE LET op == Head(ops)
         IN IF ~op.enabled
            THEN [thrown |-> FALSE, type |-> "", name |-> name, extension |-> extension]
            ELSE IF Throws(op)
            THEN [thrown |-> TRUE, type |-> op.type, name |-> name, extension |-> extension]
            ELSE IF op.type = "extension"
            THEN FoldOperationsUntilDisabled(Tail(ops), name,
                                             applyExtension(extension, op.config),
                                             file, index, clock)
            ELSE FoldOperationsUntilDisabled(Tail(ops),
                                             ApplyToName(op, name, file, index, clock),
                                             extension, file, index, clock)

\* the loop of processFileName over the operations
RECURSIVE FoldOperations(_, _, _, _, _, _)
FoldOperations(ops, name, extension, file, index, clock) ==
    IF ops = <<>>
    THEN [thrown |-> FALSE, type |-> "", name |-> name, extension |-> extension]
    ELSE LET op == Head(ops)
         IN IF ~op.enabled
            THEN FoldOperations(Tail(ops), name, extension, file, index, clock)
            ELSE IF Throws(op)
            THEN [thrown |-> TRUE, type |-> op.type, name |-> name, extension |-> extension]
            ELSE IF op.type = "extension"
            THEN FoldOperations(Tail(ops), name, applyExtension(extension, op.config),
                                file, index, clock)
            ELSE FoldOperations(Tail(ops), ApplyToName(op, name, file, index, clock),
                                extension, file, index, clock)

\* /[<>:"/\\|?*\x00-\x1f]/ ; the tab is the control character of the
\* model's alphabet
InvalidChars == {"<", ">", ":", "\"", "/", "\\", "|", "?", "*", "\t"}

\* the base name processFileName starts from
BaseName(originalName) ==
    LET lastDotIndex == lastIndexOf(originalName, ".")
    IN IF lastDotIndex > 0 THEN Slice(originalName, 0, lastDotIndex) ELSE originalName

\* the validation of processFileName that tests the empty name first
ValidatedNameEmptyFirst(file, folded, newName) ==
    IF folded.thrown
    THEN [newName |-> file.originalName, isValid |-> FALSE,
          errorMessage |-> "Error in " \o folded.type]
    ELSE IF trim(folded.name) = <<>>
    THEN [newName |-> newName, isValid |-> FALSE,
          errorMessage |-> "Filename cannot be empty"]
    ELSE IF Range(newName) \cap InvalidChars # {}
    THEN [newName |-> newName, isValid |-> FALSE,
          errorMessage |-> "Filename contains invalid characters"]
    ELSE [newName |-> newName, isValid |-> TRUE, errorMessage |-> undefined]

\* the validation of processFileName that tests the whole proposed name for
\* emptiness, not the base
ValidatedNameWholeTrim(file, folded, newName) ==
    IF folded.thrown
    THEN [newName |-> file.originalName, isValid |-> FALSE,
          errorMessage |-> "Error in " \o folded.type]
    ELSE IF Range(newName) \cap InvalidChars # {}
    THEN [newName |-> newName, isValid |-> FALSE,
          errorMessage |-> "Filename contains invalid characters"]
    ELSE IF trim(newName) = <<>>
    THEN [newName |-> newName, isValid |-> FALSE,
          errorMessage |-> "Filename cannot be empty"]
    ELSE [newName |-> newName, isValid |-> TRUE, errorMessage |-> undefined]

\* the validation of processFileName, on the outcome of the loop
ValidatedName(file, folded, newName) ==
    IF folded.thrown
    THEN [newName |-> file.originalName, isValid |-> FALSE,
          errorMessage |-> "Error in " \o folded.type]
    ELSE IF Range(newName) \cap InvalidChars # {}
    THEN [newName |-> newName, isValid |-> FALSE,
          errorMessage |-> "Filename contains invalid characters"]
    ELSE IF trim(folded.name) = <<>>
    THEN [newName |-> newName, isValid |-> FALSE,
          errorMessage |-> "Filename cannot be empty"]
    ELSE [newName |-> newName, isValid |-> TRUE, errorMessage |-> undefined]

\* const newName = `${name}${extension}` and what follows it
Validated(file, folded) == ValidatedName(file, folded, folded.name \o folded.extension)

processFileName(file, ops, index, clock) ==
    Validated(file, FoldOperations(ops, BaseName(file.originalName), file.extension,
                                   file, index, clock))

\* the spread of the file that assigns errorMessage only when the result has one
WithResultKeepsMessage(file, result) ==
    [file EXCEPT !.newName = result.newName,
                 !.isValid = result.isValid,
                 !.errorMessage = IF result.errorMessage = undefined
                                  THEN file.errorMessage
                                  ELSE result.errorMessage]

\* { ...file, newName: result.newName, isValid: ..., errorMessage: ... }
WithResult(file, result) ==
    [file EXCEPT !.newName = result.newName,
                 !.isValid = result.isValid,
                 !.errorMessage = result.errorMessage]

\* the first pass of processFiles: index is the 0-based position in the list
ProcessedFiles(fs, ops, clock) ==
    [i \in 1..Len(fs) |-> WithResult(fs[i], processFileName(fs[i], ops, i - 1, clock))]

\* nameCount.get(newName)
NameCount(fs, newName) == Cardinality({i \in 1..Len(fs) : fs[i].newName = newName})

\* finalFiles that marks a duplicate only on a file that was valid so far
FinalFilesKeepReason(processedFiles) ==
    [i \in 1..Len(processedFiles) |->
        IF NameCount(processedFiles, processedFiles[i].newName) > 1
           /\ processedFiles[i].isValid
        THEN [processedFiles[i] EXCEPT !.isValid = FALSE,
                                       !.errorMessage = "Duplicate filename"]
        ELSE processedFiles[i]]

\* finalFiles without the marking of duplicates
FinalFilesUnmarked(processedFiles) == processedFiles

\* the second pass of processFiles: finalFiles
FinalFiles(processedFiles) ==
    [i \in 1..Len(processedFiles) |->
        IF NameCount(processedFiles, processedFiles[i].newName) > 1
        THEN [processedFiles[i] EXCEPT !.isValid = FALSE,
                                       !.errorMessage = "Duplicate filename"]
        ELSE processedFiles[i]]

\* the value processFiles stores in files
processFiles(fs, ops, clock) == FinalFiles(ProcessedFiles(fs, ops, clock))

(***************************************************************************)
(* History                                                                 *)
(***************************************************************************)
\* operations.map(op => ({ ...op, config: { ...op.config } }))
CloneOperations(ops) ==
    [i \in 1..Len(ops) |->
        [id |-> ops[i].id, type |-> ops[i].type, enabled |-> ops[i].enabled,
         config |-> [k \in DOMAIN ops[i].config |-> ops[i].config[k]]]]

\* while (newHistory.length > maxHistoryLength) newHistory.shift()
RECURSIVE ShiftToMax(_)
ShiftToMax(h) == IF Len(h) > maxHistoryLength THEN ShiftToMax(Tail(h)) ELSE h

\* pushToHistory that keeps the snapshots after the index
pushKeepsRedo(st) ==
    LET newHistory == ShiftToMax(Append(st.history, CloneOperations(st.operations)))
    IN [st EXCEPT !.history = newHistory, !.historyIndex = Len(newHistory) - 1]

\* pushToHistory that never evicts the oldest snapshot
pushNoEvict(st) ==
    LET sliced == Slice(st.history, 0, st.historyIndex + 1)
        newHistory == Append(sliced, CloneOperations(st.operations))
    IN [st EXCEPT !.history = newHistory, !.historyIndex = Len(newHistory) - 1]

\* pushToHistory that drops the newest snapshot of a history over the limit
pushEvictsNewest(st) ==
    LET sliced == Slice(st.history, 0, st.historyIndex + 1)
        appended == Append(sliced, CloneOperations(st.operations))
        newHistory == IF Len(appended) > maxHistoryLength
                      THEN SubSeq(appended, 1, maxHistoryLength) ELSE appended
    IN [st EXCEPT !.history = newHistory, !.historyIndex = Len(newHistory) - 1]

\* pushToHistory(get, set): the store st with the live pipeline committed
pushToHistory(st) ==
    LET sliced == Slice(st.history, 0, st.historyIndex + 1)
        newHistory == ShiftToMax(Append(sliced, CloneOperations(st.operations)))
    IN [st EXCEPT !.history = newHistory, !.historyIndex = Len(newHistory) - 1]

canUndo(st) == st.historyIndex > 0
canRedo(st) == st.historyIndex < Len(st.history) - 1

(***************************************************************************)
(* Presets and default configurations                                      *)
(***************************************************************************)
\* the backquote of the Clean Filenames removal set is outside the model's alphabet
CleanSpecialChars == <<"!","@","#","$","%","^","&","*","(",")","+","=","[","]","{","}",
                       "|",";",":","'","\"",",","<",">","?","~">>
TrimSpecialChars == <<"!","@","#","$","%","^","&","*","(",")","+","=","[","]","{","}",
                      "|",";",":","'","\"",",","<",">","?">>
DateFormat == <<"Y","Y","Y","Y","-","M","M","-","D","D">>

getDefaultConfig(type) ==
    CASE type = "find-replace" ->
            [find |-> <<>>, replace |-> <<>>, caseSensitive |-> FALSE,
             useRegex |-> FALSE, replaceAll |-> TRUE]
      [] type = "prefix" ->
            [text |-> <<>>, position |-> "prefix", addCounter |-> FALSE,
             counterStart |-> 1, counterPadding |-> 2, counterStep |-> 1]
      [] type = "suffix" ->
            [text |-> <<>>, position |-> "suffix", addCounter |-> FALSE,
             counterStart |-> 1, counterPadding |-> 2, counterStep |-> 1]
      [] type = "remove-chars" ->
            [mode |-> "first-n", count |-> 0, startIndex |-> 0, endIndex |-> 0,
             characters |-> <<>>, pattern |-> <<>>]
      [] type = "case-change" -> [caseType |-> "lowercase"]
      [] type = "numbering" ->
            [position |-> "prefix", startNumber |-> 1, step |-> 1, padding |-> 3,
             separator |-> <<"_">>, format |-> CounterToken]
      [] type = "date-time" ->
            [source |-> "current", format |-> DateFormat, position |-> "prefix",
             separator |-> <<"_">>]
      [] type = "regex" ->
            [pattern |-> <<>>, replacement |-> <<>>, flags |-> <<"g", "i">>]
      [] type = "trim" ->
            [trimSpaces |-> TRUE, removeDuplicateSpaces |-> TRUE,
             removeSpecialChars |-> FALSE, specialCharsToRemove |-> TrimSpecialChars,
             replaceSpacesWith |-> <<>>]
      [] type = "extension" -> [action |-> "lowercase", newExtension |-> <<>>]

defaultPresets ==
    << [id |-> "number-files", operations |-> <<
           [id |-> "preset-number-1", type |-> "numbering", enabled |-> TRUE,
            config |-> [position |-> "prefix", startNumber |-> 1, step |-> 1,
                        padding |-> 3, separator |-> <<"_">>, format |-> CounterToken]] >>],
       [id |-> "date-prefix", operations |-> <<
           [id |-> "preset-date-1", type |-> "date-time", enabled |-> TRUE,
            config |-> [source |-> "current", format |-> DateFormat,
                        position |-> "prefix", separator |-> <<"_">>]] >>],
       [id |-> "clean-filenames", operations |-> <<
           [id |-> "preset-clean-1", type |-> "trim", enabled |-> TRUE,
            config |-> [trimSpaces |-> TRUE, removeDuplicateSpaces |-> TRUE,
                        removeSpecialChars |-> TRUE,
                        specialCharsToRemove |-> CleanSpecialChars,
                        replaceSpacesWith |-> <<"_">>]],
           [id |-> "preset-clean-2", type |-> "case-change", enabled |-> TRUE,
            config |-> [caseType |-> "lowercase"]] >>],
       [id |-> "music-format", operations |-> <<
           [id |-> "preset-music-1", type |-> "numbering", enabled |-> TRUE,
            config |-> [position |-> "prefix", startNumber |-> 1, step |-> 1,
                        padding |-> 2, separator |-> <<" ", "-", " ">>,
                        format |-> CounterToken]] >>],
       [id |-> "episode-format", operations |-> <<
           [id |-> "preset-episode-1", type |-> "prefix", enabled |-> TRUE,
            config |-> [text |-> <<"S", "0", "1", "E">>, position |-> "prefix",
                        addCounter |-> TRUE, counterStart |-> 1, counterPadding |-> 2,
                        counterStep |-> 1]] >>],
       [id |-> "lowercase-all", operations |-> <<
           [id |-> "preset-lower-1", type |-> "case-change", enabled |-> TRUE,
            config |-> [caseType |-> "lowercase"]] >>],
       [id |-> "replace-spaces", operations |-> <<
           [id |-> "preset-space-1", type |-> "find-replace", enabled |-> TRUE,
            config |-> [find |-> <<" ">>, replace |-> <<"_">>, caseSensitive |-> FALSE,
                        useRegex |-> FALSE, replaceAll |-> TRUE]] >> ] >>

(***************************************************************************)
(* Store helpers                                                           *)
(***************************************************************************)
Ids(seq) == {seq[i].id : i \in DOMAIN seq}

\* every operation id the store st still refers to
OperationIdsInUse(st) ==
    Ids(st.operations) \cup UNION {Ids(st.history[i]) : i \in DOMAIN st.history}

\* generateId(): an id no live object carries; prefix tells files from operations
generateId(prefix, used) ==
    LET n == CHOOSE k \in 1..(Cardinality(used) + 1) :
                 /\ (prefix \o ToString(k)) \notin used
                 /\ \A j \in 1..(k - 1) : (prefix \o ToString(j)) \in used
    IN prefix \o ToString(n)

\* the two entries exchanged instead of one moved
ReorderSwap(list, startIndex, endIndex) ==
    [i \in 1..Len(list) |->
        IF i = startIndex + 1 THEN list[endIndex + 1]
        ELSE IF i = endIndex + 1 THEN list[startIndex + 1]
        ELSE list[i]]

\* const [removed] = list.splice(startIndex, 1); list.splice(endIndex, 0, removed)
Reorder(list, startIndex, endIndex) ==
    LET removed == list[startIndex + 1]
        rest == Slice(list, 0, startIndex) \o Slice(list, startIndex + 1, Len(list))
    IN Slice(rest, 0, endIndex) \o <<removed>> \o Slice(rest, endIndex, Len(rest))

\* { ...config, ...configUpdate }
MergeConfig(config, configUpdate) ==
    [k \in (DOMAIN config) \cup (DOMAIN configUpdate) |->
        IF k \in DOMAIN configUpdate THEN configUpdate[k] ELSE config[k]]

\* the extension taken from the last dot wherever it stands
ExtensionOfAnyDot(fileName) ==
    LET lastDotIndex == lastIndexOf(fileName, ".")
    IN IF lastDotIndex >= 0 THEN Slice(fileName, lastDotIndex, Len(fileName)) ELSE <<>>

\* file.name.substring(lastDotIndex) when lastDotIndex > 0, else ''
ExtensionOf(fileName) ==
    LET lastDotIndex == lastIndexOf(fileName, ".")
    IN IF lastDotIndex > 0 THEN Slice(fileName, lastDotIndex, Len(fileName)) ELSE <<>>

\* newFiles.filter(f => !existingNames.has(f.name)).map(file => ({...}))
RECURSIVE NewFileItems(_, _, _)
NewFileItems(newFiles, existingNames, usedIds) ==
    IF newFiles = <<>> THEN <<>>
    ELSE LET file == Head(newFiles)
         IN IF file.name \in existingNames
            THEN NewFileItems(Tail(newFiles), existingNames, usedIds)
            ELSE LET id == generateId("f", usedIds)
                 IN << [id |-> id, originalFile |-> file, originalName |-> file.name,
                        newName |-> file.name, extension |-> ExtensionOf(file.name),
                        isValid |-> TRUE, errorMessage |-> undefined] >>
                    \o NewFileItems(Tail(newFiles), existingNames, usedIds \cup {id})


(***************************************************************************)
(* The commands of the store, each as the store it leaves: st is the store *)
(* (files, operations, history, historyIndex) and clock is what new Date() *)
(* reads while the command runs.                                           *)
(***************************************************************************)
\* get().processFiles()
Evaluated(st, clock) == [st EXCEPT !.files = processFiles(st.files, st.operations, clock)]

\* a pipeline command: pushToHistory, set({ operations }), processFiles
CommitAndSet(st, newOperations, clock) ==
    Evaluated([pushToHistory(st) EXCEPT !.operations = newOperations], clock)

addFiles(st, newFiles, clock) ==
    LET existingNames == {st.files[i].originalName : i \in DOMAIN st.files}
        newFileItems == NewFileItems(newFiles, existingNames, Ids(st.files))
    IN Evaluated([st EXCEPT !.files = st.files \o newFileItems], clock)

\* removeFile that commits the pipeline to the history like a pipeline command
removeFileCommits(st, id, clock) ==
    Evaluated([pushToHistory(st) EXCEPT !.files = SelectSeq(st.files, LAMBDA f : f.id # id)],
              clock)

\* removeFile that leaves the evaluation to the next command
removeFileStale(st, id, clock) ==
    [st EXCEPT !.files = SelectSeq(st.files, LAMBDA f : f.id # id)]

removeFile(st, id, clock) ==
    Evaluated([st EXCEPT !.files = SelectSeq(st.files, LAMBDA f : f.id # id)], clock)

clearFiles(st) == [st EXCEPT !.files = <<>>]

reorderFiles(st, startIndex, endIndex, clock) ==
    Evaluated([st EXCEPT !.files = Reorder(st.files, startIndex, endIndex)], clock)

addOperation(st, type, clock) ==
    CommitAndSet(st,
        Append(st.operations,
               [id |-> generateId("g", OperationIdsInUse(st)), type |-> type,
                enabled |-> TRUE, config |-> getDefaultConfig(type)]),
        clock)

updateOperation(st, id, configUpdate, clock) ==
    CommitAndSet(st,
        [i \in 1..Len(st.operations) |->
            IF st.operations[i].id = id
            THEN [st.operations[i] EXCEPT
                     !.config = MergeConfig(st.operations[i].config, configUpdate)]
            ELSE st.operations[i]],
        clock)

removeOperation(st, id, clock) ==
    CommitAndSet(st, SelectSeq(st.operations, LAMBDA op : op.id # id), clock)

\* toggleOperation that flips every operation of the pipeline
toggleEvery(st, id, clock) ==
    CommitAndSet(st,
        [i \in 1..Len(st.operations) |->
            [st.operations[i] EXCEPT !.enabled = ~st.operations[i].enabled]],
        clock)

toggleOperation(st, id, clock) ==
    CommitAndSet(st,
        [i \in 1..Len(st.operations) |->
            IF st.operations[i].id = id
            THEN [st.operations[i] EXCEPT !.enabled = ~st.operations[i].enabled]
            ELSE st.operations[i]],
        clock)

reorderOperations(st, startIndex, endIndex, clock) ==
    CommitAndSet(st, Reorder(st.operations, startIndex, endIndex), clock)

clearOperations(st, clock) == CommitAndSet(st, <<>>, clock)

applyPreset(st, preset, clock) == CommitAndSet(st, preset.operations, clock)

\* undo that goes back to the first snapshot
undoToStart(st, clock) ==
    IF st.historyIndex > 0
    THEN Evaluated([st EXCEPT !.operations = CloneOperations(st.history[1]),
                              !.historyIndex = 0],
                   clock)
    ELSE st

\* undo that drops the snapshots after the index it moves to
undoTruncates(st, clock) ==
    IF st.historyIndex > 0
    THEN Evaluated([st EXCEPT
                       !.operations = CloneOperations(st.history[(st.historyIndex - 1) + 1]),
                       !.history = SubSeq(st.history, 1, st.historyIndex),
                       !.historyIndex = st.historyIndex - 1],
                   clock)
    ELSE st

\* undo that loads the snapshot at the index it leaves from
undoFromIndex(st, clock) ==
    IF st.historyIndex > 0
    THEN Evaluated([st EXCEPT
                       !.operations = CloneOperations(st.history[st.historyIndex + 1]),
                       !.historyIndex = st.historyIndex - 1],
                   clock)
    ELSE st

undo(st, clock) ==
    IF st.historyIndex > 0
    THEN Evaluated([st EXCEPT
                       !.operations = CloneOperations(st.history[(st.historyIndex - 1) + 1]),
                       !.historyIndex = st.historyIndex - 1],
                   clock)
    ELSE st

\* redo that clamps at the tip instead of returning
redoClamped(st, clock) ==
    LET newIndex == IF st.historyIndex < Len(st.history) - 1
                    THEN st.historyIndex + 1 ELSE st.historyIndex
    IN Evaluated([st EXCEPT
                     !.operations = CloneOperations(st.history[newIndex + 1]),
                     !.historyIndex = newIndex],
                 clock)

redo(st, clock) ==
    IF st.historyIndex < Len(st.history) - 1
    THEN Evaluated([st EXCEPT
                       !.operations = CloneOperations(st.history[(st.historyIndex + 1) + 1]),
                       !.historyIndex = st.historyIndex + 1],
                   clock)
    ELSE st

(***************************************************************************)
(* The export of the evaluated list (ExportButton)                         *)
(***************************************************************************)
\* files.filter(f => f.isValid && f.originalName !== f.newName)
validFiles(fs) == SelectSeq(fs, LAMBDA f : f.isValid /\ f.originalName # f.newName)

canExport(fs) == Len(validFiles(fs)) > 0

\* the entries handleExport hands to downloadZip; none when it returns early
handleExport(fs) ==
    IF ~canExport(fs) THEN <<>>
    ELSE LET unchangedFiles ==
                 SelectSeq(fs, LAMBDA f : f.isValid /\ f.originalName = f.newName)
             written == validFiles(fs) \o unchangedFiles
         IN [k \in 1..Len(written) |->
                [name |-> written[k].newName, input |-> written[k].originalFile]]

(***************************************************************************)
(* Inputs of the commands                                                  *)
(***************************************************************************)
\* raw File objects the user can drop: name and lastModified
RawFileInputs ==
    { [name |-> <<"a", ".", "J">>, lastModified |-> 0],
      [name |-> <<"a", ".", "j">>, lastModified |-> 0] }

\* the batches of one drop or one file selection
BatchInputs ==
    {<<f>> : f \in RawFileInputs} \cup {<<f, g>> : f \in RawFileInputs, g \in RawFileInputs}

AddTypeInputs == {"extension", "numbering"}

\* the partial configs the operation editor sends for an operation kind
ConfigUpdateInputs(type) ==
    CASE type = "extension" -> {[action |-> "remove"]}
      [] type = "numbering" -> {[position |-> "replace"]}
      [] OTHER -> {[caseType |-> "uppercase"]}

\* an operation added in the editor, then edited and toggled there
EditedOperation(id, type, enabled, configUpdate) ==
    [id |-> id, type |-> type, enabled |-> enabled,
     config |-> MergeConfig(getDefaultConfig(type), configUpdate)]

PresetInputs == {defaultPresets[3]}

\* an id no file and no operation carries
MissingId == "missing"

\* the kind of the operation of pipeline ops that has the given id
TypeOfId(ops, id) ==
    IF id \in Ids(ops) THEN ops[CHOOSE i \in DOMAIN ops : ops[i].id = id].type ELSE ""

(***************************************************************************)
(* The pipeline with its objects: every Operation object and every config  *)
(* object has an address, and the live pipeline, the snapshots of the      *)
(* history and the presets are lists of addresses of Operation objects.    *)
(* h.ops[a] is the Operation object at address a, its config an address of *)
(* h.configs.                                                              *)
(***************************************************************************)
\* the objects of the built-in preset "lowercase-all", made when the module loads
InitialHeap ==
    [ops |-> << [id |-> defaultPresets[6].operations[1].id,
                 type |-> defaultPresets[6].operations[1].type,
                 enabled |-> defaultPresets[6].operations[1].enabled,
                 config |-> 1] >>,
     configs |-> << defaultPresets[6].operations[1].config >>,
     operations |-> <<>>,
     history |-> << <<>> >>,
     historyIndex |-> 0,
     customPresets |-> <<>>]

\* the heap of the specifications that do not follow the identity of objects
NoHeap == <<>>

\* the addresses of the operations of the built-in preset
BuiltInPreset == <<1>>

\* the Operation values a list of addresses stands for
Deref(h, refs) ==
    [i \in DOMAIN refs |->
        [id |-> h.ops[refs[i]].id, type |-> h.ops[refs[i]].type,
         enabled |-> h.ops[refs[i]].enabled,
         config |-> h.configs[h.ops[refs[i]].config]]]

\* generateId() among the objects of h
FreshId(h) == generateId("g", {h.ops[a].id : a \in DOMAIN h.ops})

\* refs.map(op => ({ ...op, id, config: { ...op.config } })): a new Operation
\* object with a new config object for every address, with a generated id
\* when fresh and the id of the source otherwise
RECURSIVE CopyObjects(_, _, _)
CopyObjects(h, refs, fresh) ==
    IF refs = <<>> THEN [heap |-> h, refs |-> <<>>]
    ELSE LET source == h.ops[Head(refs)]
             h1 == [h EXCEPT
                      !.configs = Append(h.configs, h.configs[source.config]),
                      !.ops = Append(h.ops,
                                     [source EXCEPT !.id = IF fresh THEN FreshId(h) ELSE source.id,
                                                    !.config = Len(h.configs) + 1])]
             rest == CopyObjects(h1, Tail(refs), fresh)
         IN [heap |-> rest.heap, refs |-> <<Len(h.ops) + 1>> \o rest.refs]

\* pushToHistory on objects: the snapshot holds copies of the live objects
heapPushToHistory(h) ==
    LET copied == CopyObjects(h, h.operations, FALSE)
        sliced == Slice(h.history, 0, h.historyIndex + 1)
        newHistory == ShiftToMax(Append(sliced, copied.refs))
    IN [copied.heap EXCEPT !.history = newHistory,
                           !.historyIndex = Len(newHistory) - 1]

heapAddOperation(h, type) ==
    LET pushed == heapPushToHistory(h)
    IN [pushed EXCEPT
          !.configs = Append(pushed.configs, getDefaultConfig(type)),
          !.ops = Append(pushed.ops,
                         [id |-> FreshId(pushed), type |-> type,
                          enabled |-> TRUE, config |-> Len(pushed.configs) + 1]),
          !.operations = Append(pushed.operations, Len(pushed.ops) + 1)]

\* operations.map(op => op.id === id ? { ...op, config: { ...op.config,
\* ...configUpdate } } : op): new objects for the matching operations
RECURSIVE UpdatedObjects(_, _, _, _)
UpdatedObjects(h, refs, id, configUpdate) ==
    IF refs = <<>> THEN [heap |-> h, refs |-> <<>>]
    ELSE LET source == h.ops[Head(refs)]
             h1 == IF source.id = id
                   THEN [h EXCEPT
                           !.configs = Append(h.configs,
                                              MergeConfig(h.configs[source.config],
                                                          configUpdate)),
                           !.ops = Append(h.ops,
                                          [source EXCEPT !.config = Len(h.configs) + 1])]
                   ELSE h
             rest == UpdatedObjects(h1, Tail(refs), id, configUpdate)
         IN [heap |-> rest.heap,
             refs |-> <<IF source.id = id THEN Len(h.ops) + 1 ELSE Head(refs)>>
                      \o rest.refs]

\* updateOperation that assigns the update into the config object it finds
heapUpdateInPlace(h, id, configUpdate) ==
    LET pushed == heapPushToHistory(h)
    IN [pushed EXCEPT
          !.configs = [c \in DOMAIN pushed.configs |->
              IF \E i \in DOMAIN pushed.operations :
                     /\ pushed.ops[pushed.operations[i]].id = id
                     /\ pushed.ops[pushed.operations[i]].config = c
              THEN MergeConfig(pushed.configs[c], configUpdate)
              ELSE pushed.configs[c]]]

heapUpdateOperation(h, id, configUpdate) ==
    LET pushed == heapPushToHistory(h)
        updated == UpdatedObjects(pushed, pushed.operations, id, configUpdate)
    IN [updated.heap EXCEPT !.operations = updated.refs]

\* operations.map(op => op.id === id ? { ...op, enabled: !op.enabled } : op):
\* the new object keeps the config object of the one it replaces
RECURSIVE ToggledObjects(_, _, _)
ToggledObjects(h, refs, id) ==
    IF refs = <<>> THEN [heap |-> h, refs |-> <<>>]
    ELSE LET source == h.ops[Head(refs)]
             h1 == IF source.id = id
                   THEN [h EXCEPT !.ops = Append(h.ops,
                                     [source EXCEPT !.enabled = ~source.enabled])]
                   ELSE h
             rest == ToggledObjects(h1, Tail(refs), id)
         IN [heap |-> rest.heap,
             refs |-> <<IF source.id = id THEN Len(h.ops) + 1 ELSE Head(refs)>>
                      \o rest.refs]

heapToggleOperation(h, id) ==
    LET pushed == heapPushToHistory(h)
        toggled == ToggledObjects(pushed, pushed.operations, id)
    IN [toggled.heap EXCEPT !.operations = toggled.refs]

heapRemoveOperation(h, id) ==
    LET pushed == heapPushToHistory(h)
    IN [pushed EXCEPT
          !.operations = SelectSeq(pushed.operations, LAMBDA a : pushed.ops[a].id # id)]

heapReorderOperations(h, startIndex, endIndex) ==
    LET pushed == heapPushToHistory(h)
    IN [pushed EXCEPT !.operations = Reorder(pushed.operations, startIndex, endIndex)]

heapClearOperations(h) == [heapPushToHistory(h) EXCEPT !.operations = <<>>]

\* set({ operations: [...preset.operations] }): the live list holds the
\* preset's own objects
heapApplyPreset(h, presetOperations) ==
    [heapPushToHistory(h) EXCEPT !.operations = presetOperations]

heapSaveCustomPreset(h) ==
    LET copied == CopyObjects(h, h.operations, TRUE)
    IN [copied.heap EXCEPT !.customPresets = Append(h.customPresets, copied.refs)]

(***************************************************************************)
(* The store as a state machine                                            *)
(***************************************************************************)
Store ==
    [files |-> files, operations |-> operations, history |-> history,
     historyIndex |-> historyIndex]

\* set(...): the store becomes st; the clock is not the store's to change
SetStore(st) ==
    /\ files' = st.files
    /\ operations' = st.operations
    /\ history' = st.history
    /\ historyIndex' = st.historyIndex
    /\ UNCHANGED <<now, heap>>

Init ==
    /\ files = <<>>
    /\ operations = <<>>
    /\ history = << <<>> >>
    /\ historyIndex = 0
    /\ now = 0
    /\ heap = NoHeap

\* the model stops adding files when the list holds MaxFiles entries
AddFilesCmd ==
    \E newFiles \in BatchInputs :
        /\ Len(files) + Len(newFiles) <= MaxFiles
        /\ SetStore(addFiles(Store, newFiles, now))
RemoveFileCmd == \E id \in Ids(files) \cup {MissingId} : SetStore(removeFile(Store, id, now))
ClearFilesCmd == SetStore(clearFiles(Store))
ReorderFilesCmd ==
    \E s \in 0..(Len(files) - 1), e \in 0..(Len(files) - 1) :
        s # e /\ SetStore(reorderFiles(Store, s, e, now))
AddOperationCmd == \E type \in AddTypeInputs : SetStore(addOperation(Store, type, now))
UpdateOperationCmd ==
    \E id \in Ids(operations) \cup {MissingId} :
       \E u \in ConfigUpdateInputs(TypeOfId(operations, id)) :
          SetStore(updateOperation(Store, id, u, now))
RemoveOperationCmd ==
    \E id \in Ids(operations) \cup {MissingId} : SetStore(removeOperation(Store, id, now))
ToggleOperationCmd ==
    \E id \in Ids(operations) \cup {MissingId} : SetStore(toggleOperation(Store, id, now))
ReorderOperationsCmd ==
    \E s \in 0..(Len(operations) - 1), e \in 0..(Len(operations) - 1) :
        s # e /\ SetStore(reorderOperations(Store, s, e, now))
ClearOperationsCmd == SetStore(clearOperations(Store, now))
ApplyPresetCmd == \E preset \in PresetInputs : SetStore(applyPreset(Store, preset, now))
UndoCmd == SetStore(undo(Store, now))
RedoCmd == SetStore(redo(Store, now))

FileCommand == AddFilesCmd \/ RemoveFileCmd \/ ClearFilesCmd \/ ReorderFilesCmd

PipelineCommand ==
    \/ AddOperationCmd
    \/ UpdateOperationCmd
    \/ RemoveOperationCmd
    \/ ToggleOperationCmd
    \/ ReorderOperationsCmd
    \/ ClearOperationsCmd
    \/ ApplyPresetCmd

\* the model stops committing when the history holds MaxHistory snapshots
CanCommit == historyIndex + 1 < MaxHistory

Next ==
    \/ AddFilesCmd
    \/ RemoveFileCmd
    \/ ClearFilesCmd
    \/ ReorderFilesCmd
    \/ CanCommit /\ AddOperationCmd
    \/ CanCommit /\ UpdateOperationCmd
    \/ CanCommit /\ RemoveOperationCmd
    \/ CanCommit /\ ToggleOperationCmd
    \/ CanCommit /\ ReorderOperationsCmd
    \/ CanCommit /\ ClearOperationsCmd
    \/ CanCommit /\ ApplyPresetCmd
    \/ UndoCmd
    \/ RedoCmd

Spec == Init /\ [][Next]_vars

(***************************************************************************)
(* The History Manager alone: pushToHistory, undo and redo over a history  *)
(* that starts with one snapshot P0, the committed pipelines being given.  *)
(***************************************************************************)
HistoryOperation(id, type) ==
    [id |-> id, type |-> type, enabled |-> TRUE, config |-> getDefaultConfig(type)]

PipelineInputs ==
    { <<>>,
      <<HistoryOperation("g1", "extension")>>,
      <<HistoryOperation("g2", "numbering")>>,
      <<HistoryOperation("g1", "extension"), HistoryOperation("g2", "numbering")>>,
      <<HistoryOperation("g1", "extension"), HistoryOperation("g2", "numbering"),
        HistoryOperation("g3", "case-change")>> }

\* commit of a given pipeline: pushToHistory reads it as the live pipeline
commit(st, pipeline) == pushToHistory([st EXCEPT !.operations = pipeline])

InitHistory ==
    /\ files = <<>>
    /\ operations \in PipelineInputs
    /\ history = <<operations>>
    /\ historyIndex = 0
    /\ now = 0
    /\ heap = NoHeap

CommitCmd == \E pipeline \in PipelineInputs : SetStore(commit(Store, pipeline))

NextHistory ==
    \/ CanCommit /\ CommitCmd
    \/ UndoCmd
    \/ RedoCmd

SpecHistory == InitHistory /\ [][NextHistory]_vars

(***************************************************************************)
(* The store driven until the history is full: one operation is added at   *)
(* the start, then the pipeline is cleared, undone and redone at will.     *)
(***************************************************************************)
NextDeep ==
    \/ Len(history) = 1 /\ operations = <<>> /\ AddOperationCmd
    \/ ClearOperationsCmd
    \/ UndoCmd
    \/ RedoCmd

SpecDeep == Init /\ [][NextDeep]_vars

(***************************************************************************)
(* The store evaluating file lists: up to MaxEvalFiles files whose names   *)
(* collide after a pipeline, under the pipelines of saved presets.         *)
(***************************************************************************)
EvalFileInputs ==
    { [name |-> <<"a", ".", "J">>, lastModified |-> 0],
      [name |-> <<"a", ".", "j">>, lastModified |-> 0],
      [name |-> <<"b", ".", "j">>, lastModified |-> 0] }

EvalLowercase == HistoryOperation("p1", "extension")

\* find-replace of "a" by ":", a character no filename may hold
EvalColon ==
    [id |-> "p2", type |-> "find-replace", enabled |-> TRUE,
     config |-> MergeConfig(getDefaultConfig("find-replace"),
                            [find |-> <<"a">>, replace |-> <<":">>])]

\* find-replace of "a" by nothing, which empties the base name "a"
EvalEmpty ==
    [id |-> "p3", type |-> "find-replace", enabled |-> TRUE,
     config |-> MergeConfig(getDefaultConfig("find-replace"), [find |-> <<"a">>])]

\* presets the user saved from pipelines built in the editor
EvalPresetInputs ==
    { [id |-> "custom-1", operations |-> <<EvalLowercase>>],
      [id |-> "custom-2", operations |-> <<EvalColon, EvalLowercase>>],
      [id |-> "custom-3", operations |-> <<EvalEmpty, EvalLowercase>>],
      [id |-> "custom-4", operations |-> <<EvalColon>>],
      [id |-> "custom-5", operations |->
          <<EditedOperation("p4", "numbering", TRUE, [position |-> "replace"])>>],
      [id |-> "custom-6", operations |->
          <<EditedOperation("p5", "numbering", TRUE,
                            [startNumber |-> 95, step |-> 10, padding |-> 2])>>] }

AddFilesEval ==
    \E file \in EvalFileInputs :
        /\ Len(files) < MaxEvalFiles
        /\ SetStore(addFiles(Store, <<file>>, now))

ApplyPresetEval ==
    \E preset \in EvalPresetInputs : SetStore(applyPreset(Store, preset, now))

NextEval ==
    \/ AddFilesEval
    \/ RemoveFileCmd
    \/ ReorderFilesCmd
    \/ ClearFilesCmd
    \/ CanCommit /\ ApplyPresetEval
    \/ CanCommit /\ ClearOperationsCmd

SpecEval == Init /\ [][NextEval]_vars

(***************************************************************************)
(* The store renaming files of many kinds of names: files are added one by *)
(* one, one saved preset is applied, and the clock advances by a day.      *)
(***************************************************************************)
\* what new Date() can read: two instants one day apart
ClockInputs == {0, 86400}

RenameFileInputs ==
    { [name |-> <<"a", ".", "J">>, lastModified |-> 0],
      [name |-> <<"\t", ".", "j">>, lastModified |-> 0],
      [name |-> <<":", ".", "j">>, lastModified |-> 0],
      [name |-> <<" ", ".", "j">>, lastModified |-> 0],
      [name |-> <<".", "g", "I">>, lastModified |-> 0] }

\* the built-in preset Episode Format, and presets the user saved from
\* pipelines built in the editor
RenamePresetInputs ==
    { defaultPresets[5],
      [id |-> "custom-10", operations |->
          <<EditedOperation("q1", "date-time", TRUE, [source |-> "current"])>>],
      [id |-> "custom-14", operations |->
          <<EditedOperation("q1", "date-time", TRUE, [source |-> "modified"])>>],
      [id |-> "custom-11", operations |->
          <<EditedOperation("q1", "find-replace", FALSE,
                            [find |-> <<"a">>, replace |-> <<":">>]),
            EditedOperation("q2", "numbering", FALSE, [position |-> "prefix"])>>],
      [id |-> "custom-12", operations |->
          <<EditedOperation("q1", "numbering", TRUE, [position |-> "replace"])>>],
      [id |-> "custom-13", operations |->
          <<EditedOperation("q1", "extension", TRUE, [action |-> "lowercase"])>>],
      [id |-> "custom-15", operations |->
          <<EditedOperation("q1", "case-change", TRUE, [caseType |-> "uppercase"]),
            EditedOperation("q2", "numbering", TRUE, [padding |-> 2147483647]),
            EditedOperation("q3", "extension", TRUE, [action |-> "lowercase"])>>],
      [id |-> "custom-16", operations |->
          <<EditedOperation("q1", "regex", TRUE, [pattern |-> <<"(">>]),
            EditedOperation("q2", "regex", TRUE,
                            [pattern |-> <<"a">>, replacement |-> <<"b">>])>>],
      [id |-> "custom-17", operations |->
          <<EditedOperation("q1", "regex", TRUE,
                            [pattern |-> <<"a">>, replacement |-> <<"b">>]),
            EditedOperation("q2", "regex", TRUE,
                            [pattern |-> <<"b">>, flags |-> <<"x">>])>>],
      [id |-> "custom-18", operations |->
          <<EditedOperation("q1", "find-replace", TRUE,
                            [find |-> <<"a">>, replace |-> <<":">>])>>],
      [id |-> "custom-19", operations |->
          <<EditedOperation("q1", "extension", TRUE, [action |-> "uppercase"])>>],
      [id |-> "custom-20", operations |->
          <<EditedOperation("q1", "extension", TRUE, [action |-> "remove"])>>],
      [id |-> "custom-21", operations |->
          <<EditedOperation("q1", "find-replace", TRUE,
                            [find |-> <<"a">>, replace |-> <<"b">>]),
            EditedOperation("q2", "case-change", FALSE, [caseType |-> "uppercase"]),
            EditedOperation("q3", "find-replace", TRUE,
                            [find |-> <<"b">>, replace |-> <<"c">>,
                             caseSensitive |-> TRUE])>>],
      [id |-> "custom-22", operations |->
          <<EditedOperation("q1", "remove-chars", TRUE,
                            [mode |-> "range", startIndex |-> 1])>>],
      [id |-> "custom-23", operations |->
          <<EditedOperation("q1", "find-replace", TRUE, [find |-> <<"a">>])>>] }

\* the batches of one drop: one file, or the same name picked from two folders
RenameBatchInputs ==
    {<<f>> : f \in RenameFileInputs}
       \cup {<<[name |-> <<"a", ".", "J">>, lastModified |-> 0],
               [name |-> <<"a", ".", "J">>, lastModified |-> 0]>>}

AddFilesRename ==
    \E newFiles \in RenameBatchInputs :
        /\ Len(files) + Len(newFiles) <= MaxRenameFiles
        /\ SetStore(addFiles(Store, newFiles, now))

\* one preset is applied in a run
ApplyPresetRename ==
    /\ Len(history) = 1
    /\ \E preset \in RenamePresetInputs : SetStore(applyPreset(Store, preset, now))

\* the clock of the environment advances; the store does not notice
Tick ==
    /\ \E t \in ClockInputs : t > now /\ now' = t
    /\ UNCHANGED <<files, operations, history, historyIndex, heap>>

NextRename ==
    \/ AddFilesRename
    \/ RemoveFileCmd
    \/ ReorderFilesCmd
    \/ ApplyPresetRename
    \/ Tick

SpecRename == Init /\ [][NextRename]_vars

(***************************************************************************)
(* The pipeline commands over the objects of the heap: the live pipeline,  *)
(* the snapshots and the presets as lists of addresses.  The model stops   *)
(* committing when the history holds MaxSnapshots snapshots.               *)
(***************************************************************************)
HeapIds(h) == {h.ops[h.operations[i]].id : i \in DOMAIN h.operations}

HeapTypeOfId(h, id) == TypeOfId(Deref(h, h.operations), id)

SetHeap(h) ==
    /\ Len(h.history) <= MaxSnapshots
    /\ heap' = h
    /\ UNCHANGED <<files, operations, history, historyIndex, now>>

AddOperationAlias == SetHeap(heapAddOperation(heap, "extension"))
UpdateOperationAlias ==
    \E id \in HeapIds(heap) :
       \E u \in ConfigUpdateInputs(HeapTypeOfId(heap, id)) :
          SetHeap(heapUpdateOperation(heap, id, u))
ToggleOperationAlias == \E id \in HeapIds(heap) : SetHeap(heapToggleOperation(heap, id))
RemoveOperationAlias == \E id \in HeapIds(heap) : SetHeap(heapRemoveOperation(heap, id))
ReorderOperationsAlias ==
    \E s \in 0..(Len(heap.operations) - 1), e \in 0..(Len(heap.operations) - 1) :
        s # e /\ SetHeap(heapReorderOperations(heap, s, e))
ClearOperationsAlias == SetHeap(heapClearOperations(heap))
ApplyBuiltInPresetAlias == SetHeap(heapApplyPreset(heap, BuiltInPreset))
ApplyCustomPresetAlias ==
    \E p \in DOMAIN heap.customPresets : SetHeap(heapApplyPreset(heap, heap.customPresets[p]))
SaveCustomPresetAlias ==
    /\ heap.operations # <<>>
    /\ heap.customPresets = <<>>
    /\ SetHeap(heapSaveCustomPreset(heap))

NextAlias ==
    \/ AddOperationAlias
    \/ UpdateOperationAlias
    \/ ToggleOperationAlias
    \/ RemoveOperationAlias
    \/ ReorderOperationsAlias
    \/ ClearOperationsAlias
    \/ ApplyBuiltInPresetAlias
    \/ ApplyCustomPresetAlias
    \/ SaveCustomPresetAlias

\* the store before any command, with the objects of the built-in preset
InitAlias ==
    /\ files = <<>>
    /\ operations = <<>>
    /\ history = << <<>> >>
    /\ historyIndex = 0
    /\ now = 0
    /\ heap = InitialHeap

SpecAlias == InitAlias /\ [][NextAlias]_vars

(***************************************************************************)
(* Properties of the history                                               *)
(***************************************************************************)
\* C1: calling undo directly after a pipeline mutation makes the live
\* pipeline equal to the pipeline as it was immediately before that mutation.
C1_UndoRevertsLastMutation ==
    [][PipelineCommand => undo(Store', now').operations = operations]_vars

\* C2: in every state where canUndo() is true, undo followed directly by redo
\* leaves the live pipeline equal to the pipeline that was live before the undo.
C2_UndoThenRedoRestores ==
    canUndo(Store) => redo(undo(Store, now), now).operations = operations

\* C3: from a history holding only P0, committing P1 and then P2 and calling
\* undo twice yields P1 then P0 with canUndo() false, and calling redo twice
\* yields P1 then P2 with canRedo() false.
C3_HistoryRoundTrip ==
    Len(history) = 1 =>
        \A P1 \in PipelineInputs, P2 \in PipelineInputs :
            LET P0 == history[1]
                committed == commit(commit(Store, P1), P2)
                undone1 == undo(committed, now)
                undone2 == undo(undone1, now)
                redone1 == redo(undone2, now)
                redone2 == redo(redone1, now)
            IN /\ undone1.operations = P1
               /\ undone2.operations = P0
               /\ ~canUndo(undone2)
               /\ redone1.operations = P1
               /\ redone2.operations = P2
               /\ ~canRedo(redone2)

\* three different snapshots committed and both undone: the round trip at its turn
C3_Witness ==
    /\ Len(history) = 3
    /\ historyIndex = 0
    /\ operations = history[1]
    /\ history[1] # history[2]
    /\ history[2] # history[3]
    /\ history[1] # history[3]

\* the stores the pipeline commands leave from st, over the inputs of the model
PipelineResults(st, clock) ==
    {addOperation(st, type, clock) : type \in AddTypeInputs}
    \cup UNION {{updateOperation(st, id, u, clock) :
                    u \in ConfigUpdateInputs(TypeOfId(st.operations, id))} :
                 id \in Ids(st.operations) \cup {MissingId}}
    \cup {removeOperation(st, id, clock) : id \in Ids(st.operations) \cup {MissingId}}
    \cup {toggleOperation(st, id, clock) : id \in Ids(st.operations) \cup {MissingId}}
    \cup {reorderOperations(st, s, e, clock) :
             s \in 0..(Len(st.operations) - 1), e \in 0..(Len(st.operations) - 1)}
    \cup {clearOperations(st, clock)}
    \cup {applyPreset(st, preset, clock) : preset \in PresetInputs}

\* C4: a commit made while the index is not at the tip discards every snapshot
\* after the index, makes the committed pipeline the last snapshot and leaves
\* canRedo() false.
C4_CommitTruncates ==
    historyIndex < Len(history) - 1 =>
        \A after \in PipelineResults(Store, now) :
            /\ after.history = Append(SubSeq(history, 1, historyIndex + 1), operations)
            /\ after.historyIndex = Len(after.history) - 1
            /\ ~(after.historyIndex < Len(after.history) - 1)

\* an operation added after two undos: its id "g2" was chosen while a snapshot
\* after the index still held "g1", and that snapshot is gone
C4_Witness ==
    /\ Len(history) = 2
    /\ historyIndex = 1
    /\ Ids(operations) = {"g2"}
    /\ "g1" \notin OperationIdsInUse(Store)

\* C5: in every reachable state the history has between 1 and 50 snapshots
\* and historyIndex is within [0, history.length - 1].
C5_HistoryBounds ==
    /\ Len(history) >= 1
    /\ Len(history) <= 50
    /\ historyIndex >= 0
    /\ historyIndex <= Len(history) - 1

\* a full history whose first snapshot is no longer the initial empty one
C5_Witness ==
    /\ Len(history) = 50
    /\ historyIndex = 49
    /\ history[1] # <<>>

\* C6: canUndo() holds exactly when index > 0 and canRedo() exactly when
\* index < length - 1, and undo without canUndo(), redo without canRedo(),
\* leave the whole store unchanged.
C6_LimitsAreNoOps ==
    /\ canUndo(Store) <=> (historyIndex > 0)
    /\ canRedo(Store) <=> (historyIndex < Len(history) - 1)
    /\ ~canUndo(Store) => undo(Store, now) = Store
    /\ ~canRedo(Store) => redo(Store, now) = Store

\* a store at the tip of a history it can undo, whose pipeline was changed
\* after the last snapshot, with files evaluated under it
C6_Witness ==
    /\ historyIndex = Len(history) - 1
    /\ historyIndex > 0
    /\ operations # history[historyIndex + 1]
    /\ \E i \in DOMAIN files : files[i].newName # files[i].originalName

(***************************************************************************)
(* Properties of the file list                                             *)
(***************************************************************************)
\* the stores the file-list commands leave from st, over the inputs of the model
FileResults(st, clock) ==
    {addFiles(st, newFiles, clock) : newFiles \in BatchInputs}
    \cup {removeFile(st, id, clock) : id \in Ids(st.files) \cup {MissingId}}
    \cup {clearFiles(st)}
    \cup {reorderFiles(st, s, e, clock) :
             s \in 0..(Len(st.files) - 1), e \in 0..(Len(st.files) - 1)}

\* C7: addFiles, removeFile, reorderFiles and clearFiles never change the
\* live pipeline, the history list or the history index.
C7_FileCommandsKeepHistory ==
    \A after \in FileResults(Store, now) :
        /\ after.operations = operations
        /\ after.history = history
        /\ after.historyIndex = historyIndex

\* files queued in a store whose pipeline and history are not the initial ones
C7_Witness ==
    /\ Len(files) = 2
    /\ operations # <<>>
    /\ Len(history) > 2
    /\ historyIndex = 2

\* C8: in every reachable state no two queued file entries have the same
\* originalName.
C8_OriginalNamesUnique ==
    \A i \in DOMAIN files, j \in DOMAIN files :
        i # j => files[i].originalName # files[j].originalName

\* C9: after every evaluation a file carries the duplicate-filename reason
\* exactly when another file of the list has the same proposed name; the
\* duplicate reason replaces the file's own reason, and a file with a unique
\* proposed name keeps its own validity and reason.
C9_DuplicateMarking ==
    \A i \in DOMAIN files :
        LET own == processFileName(files[i], operations, i - 1, now)
            shared == \E j \in DOMAIN files :
                          j # i /\ files[j].newName = files[i].newName
        IN /\ files[i].newName = own.newName
           /\ (files[i].errorMessage = "Duplicate filename") <=> shared
           /\ shared => ~files[i].isValid
           /\ ~shared => /\ files[i].isValid = own.isValid
                         /\ files[i].errorMessage = own.errorMessage

\* two files share a proposed name with an illegal character and carry the
\* duplicate reason, a third with a unique name is valid
C9_Witness ==
    \E i \in DOMAIN files, j \in DOMAIN files, k \in DOMAIN files :
        /\ i # j
        /\ files[i].newName = files[j].newName
        /\ processFileName(files[i], operations, i - 1, now).errorMessage
               = "Filename contains invalid characters"
        /\ files[i].errorMessage = "Duplicate filename"
        /\ files[j].errorMessage = "Duplicate filename"
        /\ files[k].isValid
        /\ files[k].errorMessage = undefined

\* what the preview shows of a file list
Preview(fs) ==
    [i \in DOMAIN fs |->
        [newName |-> fs[i].newName, isValid |-> fs[i].isValid,
         errorMessage |-> fs[i].errorMessage]]

\* C10: with the clock held fixed, after every command each file's stored
\* proposed name, validity and error message are what evaluating the current
\* file list against the current live pipeline produces.
C10_PreviewNeverStale ==
    Preview(files) = Preview(processFiles(files, operations, now))

\* one file left by removeFile under a pipeline that numbers the files
C10_Witness ==
    /\ Len(files) = 1
    /\ files[1].id = "f2"
    /\ files[1].newName # files[1].originalName
    /\ \E i \in DOMAIN operations :
           operations[i].type = "numbering" /\ operations[i].enabled

(***************************************************************************)
(* Properties of the evaluation                                            *)
(***************************************************************************)
\* the operation takes its date from new Date()
ReadsClock(op) ==
    /\ op.enabled
    /\ op.type = "date-time"
    /\ op.config.source \notin {"modified", "created"}

\* C11 as stated: two evaluations of the same files under the same operations
\* give the same proposed names, validity flags and error messages, also when
\* the clock advances between them.
C11_EvaluationIgnoresClock ==
    \A t \in ClockInputs :
        Preview(processFiles(files, operations, t))
            = Preview(processFiles(files, operations, now))

\* C11 amended: evaluating an evaluated list again at the same clock reading
\* changes no result, and when no enabled date-time operation takes the
\* current time the results are the same at every clock reading.
C11_EvaluationStable ==
    /\ Preview(processFiles(processFiles(files, operations, now), operations, now))
           = Preview(processFiles(files, operations, now))
    /\ (\A i \in DOMAIN operations : ~ReadsClock(operations[i])) =>
           \A t \in ClockInputs :
               Preview(processFiles(files, operations, t))
                   = Preview(processFiles(files, operations, now))

\* a file dated by its modification time, looked at a day later
C11_Witness ==
    /\ now = 86400
    /\ files # <<>>
    /\ \E i \in DOMAIN operations :
           /\ operations[i].enabled
           /\ operations[i].type = "date-time"
           /\ operations[i].config.source = "modified"
    /\ files[1].newName # files[1].originalName

\* no operation of the live pipeline is enabled
AllDisabled == \A i \in DOMAIN operations : ~operations[i].enabled

\* the original names of the queued files are pairwise distinct
DistinctOriginals ==
    \A i \in DOMAIN files, j \in DOMAIN files :
        i # j => files[i].originalName # files[j].originalName

C13_PresetLoadsFreshIds ==
    \A preset \in PresetInputs :
        LET loaded == applyPreset(Store, preset, now).operations
        IN /\ Len(loaded) = Len(preset.operations)
           /\ \A i \in DOMAIN loaded :
                  /\ loaded[i].type = preset.operations[i].type
                  /\ loaded[i].enabled = preset.operations[i].enabled
                  /\ loaded[i].config = preset.operations[i].config
           /\ Ids(loaded) \cap Ids(preset.operations) = {}

\* the addresses of the Operation objects held by the snapshots of the
\* history, by the built-in preset and by the custom presets
StoredObjects(h) ==
    UNION ( {{h.history[k][i] : i \in DOMAIN h.history[k]} : k \in DOMAIN h.history}
            \cup {{BuiltInPreset[i] : i \in DOMAIN BuiltInPreset}}
            \cup {{h.customPresets[p][i] : i \in DOMAIN h.customPresets[p]}
                     : p \in DOMAIN h.customPresets} )

\* C14: no command on the live pipeline changes the content of a stored copy:
\* every Operation object held by a snapshot of the history, by the built-in
\* preset or by a saved custom preset, and the config object it points to,
\* has after the command the content it had before it.
C14_StoredCopiesUnchanged ==
    [][\A a \in StoredObjects(heap) :
          /\ heap'.ops[a] = heap.ops[a]
          /\ heap'.configs[heap.ops[a].config] = heap.configs[heap.ops[a].config]]_vars

\* the live pipeline holds an operation loaded from the built-in preset, since
\* toggled or updated into a new object, next to a saved custom preset
C14_Witness ==
    /\ heap.customPresets # <<>>
    /\ \E i \in DOMAIN heap.operations :
          /\ heap.operations[i] \notin StoredObjects(heap)
          /\ heap.ops[heap.operations[i]].id = heap.ops[BuiltInPreset[1]].id
          /\ heap.configs[heap.ops[heap.operations[i]].config]
                # heap.configs[heap.ops[BuiltInPreset[1]].config]

(***************************************************************************)
(* Properties of failures                                                  *)
(***************************************************************************)
\* the kind of the first enabled operation of ops whose transformer throws,
\* "" when none does
RECURSIVE FailingType(_)
FailingType(ops) ==
    IF ops = <<>> THEN ""
    ELSE IF Head(ops).enabled /\ Throws(Head(ops)) THEN Head(ops).type
    ELSE FailingType(Tail(ops))

\* C15: when an enabled operation throws while a file is evaluated, the file
\* is invalid with a message naming the kind of the operation, its proposed
\* name is its original name (no later operation acted on it), and every
\* file of the list has its own such result.
C15_FailureContained ==
    FailingType(operations) # "" =>
        \A i \in DOMAIN files :
            /\ files[i].newName = files[i].originalName
            /\ ~files[i].isValid
            /\ files[i].errorMessage = "Error in " \o FailingType(operations)

\* C15 for lists of pairwise distinct original names
C15_ContainedForDistinctNames ==
    (FailingType(operations) # "" /\ DistinctOriginals) => C15_FailureContained

\* ops without the operation at position k
WithoutAt(ops, k) == SubSeq(ops, 1, k - 1) \o SubSeq(ops, k + 1, Len(ops))

\* new RegExp(op.config.pattern, op.config.flags) throws in applyRegex
InvalidRegex(op) ==
    /\ op.type = "regex"
    /\ op.enabled
    /\ op.config.pattern # <<>>
    /\ ~RegExpCompiles(op.config.pattern, op.config.flags)

\* C16: an enabled regex operation whose pattern or flags do not compile acts
\* as the identity: the evaluated list (names, validity, messages) is the one
\* the same pipeline without that operation gives.
C16_InvalidRegexIsIdentity ==
    \A k \in DOMAIN operations :
        InvalidRegex(operations[k]) =>
            processFiles(files, operations, now)
               = processFiles(files, WithoutAt(operations, k), now)

\* a list evaluated under a pipeline that holds a regex operation that does
\* not compile, with a file renamed by the other operations and valid
C16_Witness ==
    /\ \E k \in DOMAIN operations : InvalidRegex(operations[k])
    /\ \E i \in DOMAIN files :
          /\ files[i].newName # files[i].originalName
          /\ files[i].isValid
          /\ files = processFiles(files, operations, now)

(***************************************************************************)
(* Properties of the counter                                               *)
(***************************************************************************)
\* how many decimal digits the natural number n has
RECURSIVE DigitCount(_)
DigitCount(n) == IF n < 10 THEN 1 ELSE 1 + DigitCount(n \div 10)

\* the decimal rendering of the natural number n on at least width places:
\* place j from the left holds the digit of weight 10^(places - j)
Rendered(n, width) ==
    LET places == IF DigitCount(n) > width THEN DigitCount(n) ELSE width
    IN [j \in 1..places |-> DigitChars[((n \div (10 ^ (places - j))) % 10) + 1]]

\* the one enabled numbering operation of a pipeline that holds nothing else,
\* its format being the token [N]
OnlyNumbering ==
    /\ Len(operations) = 1
    /\ operations[1].type = "numbering"
    /\ operations[1].enabled
    /\ operations[1].config.format = CounterToken

\* C17: under a numbering operation the file at 0-based position i of the
\* list, whatever commands ordered the list, gets the decimal rendering of
\* startNumber + i*step, zero-padded to padding places, as its base name
\* (position replace) or before the separator and its base name (prefix);
\* with start 1, step 1, padding 3 three files get 001, 002, 003 in order.
C17_NumberingCounter ==
    /\ OnlyNumbering =>
          \A i \in DOMAIN files :
              LET config == operations[1].config
                  counter == Rendered(config.startNumber + ((i - 1) * config.step),
                                      config.padding)
              IN files[i].newName =
                    CASE config.position = "replace" -> counter \o files[i].extension
                      [] config.position = "prefix" ->
                            counter \o config.separator \o files[i].originalName
    /\ ( /\ OnlyNumbering
         /\ operations[1].config
               = [position |-> "replace", startNumber |-> 1, step |-> 1, padding |-> 3,
                  separator |-> <<"_">>, format |-> CounterToken]
         /\ Len(files) = 3 )
       => /\ files[1].newName = <<"0", "0", "1">> \o files[1].extension
          /\ files[2].newName = <<"0", "0", "2">> \o files[2].extension
          /\ files[3].newName = <<"0", "0", "3">> \o files[3].extension

\* three files numbered 001, 002, 003 in an order that file commands made:
\* the file added first is no longer first in the list
C17_Witness ==
    /\ OnlyNumbering
    /\ Len(files) = 3
    /\ files[1].newName = <<"0", "0", "1">> \o files[1].extension
    /\ files[3].newName = <<"0", "0", "3">> \o files[3].extension
    /\ files[1].id # "f1"

(***************************************************************************)
(* Properties of the validation                                            *)
(***************************************************************************)
\* < > : " / \ | ? * and the control characters, as far as the alphabet of
\* the model goes
IllegalCharacters == {"<", ">", ":", "\"", "/", "\\", "|", "?", "*", "\t"}

HasIllegalCharacter(name) == \E k \in DOMAIN name : name[k] \in IllegalCharacters

\* C18 as stated: a file whose proposed name holds an illegal character is
\* invalid, with the invalid-characters reason unless its proposed name is
\* shared (the duplicate rule); a proposed name without such a character
\* never has that reason.
C18_IllegalCharacters ==
    \A i \in DOMAIN files :
        IF HasIllegalCharacter(files[i].newName)
        THEN /\ ~files[i].isValid
             /\ NameCount(files, files[i].newName) = 1
                   => files[i].errorMessage = "Filename contains invalid characters"
        ELSE files[i].errorMessage # "Filename contains invalid characters"

\* C18, amended: the same, the reason being the invalid-characters reason
\* unless an operation failed on the file or the duplicate rule overrides.
C18_IllegalCharactersUnlessFailed ==
    \A i \in DOMAIN files :
        IF HasIllegalCharacter(files[i].newName)
        THEN /\ ~files[i].isValid
             /\ (NameCount(files, files[i].newName) = 1 /\ FailingType(operations) = "")
                   => files[i].errorMessage = "Filename contains invalid characters"
        ELSE files[i].errorMessage # "Filename contains invalid characters"

\* a pipeline put an illegal character into the name of one file, which has
\* the invalid-characters reason, next to a file with a tab and a blank base
C18_Witness ==
    \E i \in DOMAIN files, j \in DOMAIN files :
        /\ ~HasIllegalCharacter(files[i].originalName)
        /\ HasIllegalCharacter(files[i].newName)
        /\ files[i].errorMessage = "Filename contains invalid characters"
        /\ "\t" \in Range(files[j].newName)
        /\ files[j].errorMessage = "Filename contains invalid characters"

(***************************************************************************)
(* Properties of the extension                                             *)
(***************************************************************************)
\* the substring of name from its last dot when that dot is not the first
\* character, and the empty string otherwise
ExtensionFromLastDot(name) ==
    LET dots == {k \in DOMAIN name : name[k] = "."}
    IN IF dots = {} THEN <<>>
       ELSE LET last == CHOOSE k \in dots : \A d \in dots : d <= k
            IN IF last > 1 THEN SubSeq(name, last, Len(name)) ELSE <<>>

\* the pipeline holds enabled extension operations only, with action
\* lowercase, uppercase or remove
OnlyExtensionCaseOrRemove ==
    /\ operations # <<>>
    /\ \A k \in DOMAIN operations :
          /\ operations[k].type = "extension"
          /\ operations[k].enabled
          /\ operations[k].config.action \in {"lowercase", "uppercase", "remove"}

\* C19: the extension of a queued file is the substring from the last dot of
\* its name when that dot is not the first character, and empty otherwise;
\* the base the evaluation starts from and the extension make up the name;
\* a name whose only dot is its first character has an empty extension and
\* is proposed unchanged under extension operations with action lowercase,
\* uppercase or remove.
C19_ExtensionSplit ==
    \A i \in DOMAIN files :
        /\ files[i].extension = ExtensionFromLastDot(files[i].originalName)
        /\ BaseName(files[i].originalName) \o files[i].extension = files[i].originalName
        /\ ( /\ files[i].originalName[1] = "."
             /\ ExtensionFromLastDot(files[i].originalName) = <<>>
             /\ OnlyExtensionCaseOrRemove )
           => files[i].newName = files[i].originalName

\* a dot file proposed unchanged next to a file whose extension the same
\* pipeline changed
C19_Witness ==
    /\ OnlyExtensionCaseOrRemove
    /\ \E i \in DOMAIN files, j \in DOMAIN files :
          /\ files[i].originalName = <<".", "g", "I">>
          /\ files[i].extension = <<>>
          /\ files[i].newName = files[i].originalName
          /\ files[j].extension # <<>>
          /\ files[j].newName # files[j].originalName

(***************************************************************************)
(* Properties of the commit                                                *)
(***************************************************************************)
\* C20: every pipeline command appends one snapshot, the pipeline as it was
\* before the command, after the snapshots up to the index, and leaves the
\* index at the last position; issued at the tip of a history of 50
\* snapshots it evicts the oldest one: the other 49 move one position to the
\* front, the length stays 50 and the index is 49.
C20_CommitEvictsOldest ==
    \A r \in PipelineResults(Store, now) :
        /\ r.historyIndex = Len(r.history) - 1
        /\ r.history[Len(r.history)] = operations
        /\ historyIndex + 1 < 50 =>
              /\ Len(r.history) = historyIndex + 2
              /\ \A k \in 1..(historyIndex + 1) : r.history[k] = history[k]
        /\ (Len(history) = 50 /\ historyIndex = 49) =>
              /\ Len(r.history) = 50
              /\ r.historyIndex = 49
              /\ \A k \in 1..49 : r.history[k] = history[k + 1]

\* a full history at its tip, the oldest snapshot differing from the next
\* one and the live pipeline from the newest snapshot
C20_Witness ==
    /\ Len(history) = 50
    /\ historyIndex = 49
    /\ history[1] # history[2]
    /\ operations # history[50]

(***************************************************************************)
(* Properties of undo and redo                                             *)
(***************************************************************************)
\* C21: an undo that is not a no-op moves the index down by exactly one and
\* a redo that is not a no-op moves it up by exactly one, and the live
\* pipeline is then equal to the snapshot stored at the new index.
C21_UndoRedoStep ==
    /\ canUndo(Store) =>
          /\ undo(Store, now).historyIndex = historyIndex - 1
          /\ undo(Store, now).operations = history[(historyIndex - 1) + 1]
    /\ canRedo(Store) =>
          /\ redo(Store, now).historyIndex = historyIndex + 1
          /\ redo(Store, now).operations = history[(historyIndex + 1) + 1]

\* a store two steps from either end of its history, the snapshots next to
\* the index differing from the live pipeline and from each other
C21_Witness ==
    /\ historyIndex = 1
    /\ Len(history) = 3
    /\ history[1] # operations
    /\ history[3] # operations
    /\ history[1] # history[3]

C29_ReorderIsPermutation ==
    \A from \in 0..(Len(operations) - 1), to \in 0..(Len(operations) - 1) :
        LET after == reorderOperations(Store, from, to, now).operations
        IN /\ Len(after) = Len(operations)
           /\ after[to + 1] = operations[from + 1]
           /\ WithoutAt(after, to + 1) = WithoutAt(operations, from + 1)

\* a pipeline of three operations, where moving the first to the end differs
\* from exchanging the two
C29_Witness ==
    /\ Len(operations) = 3
    /\ reorderOperations(Store, 0, 2, now).operations
          = <<operations[2], operations[3], operations[1]>>
    /\ operations[1] # operations[2]
    /\ operations[2] # operations[3]
    /\ historyIndex < Len(history) - 1

\* the positions of the pipeline whose operation has the given id
Targets(id) == {k \in DOMAIN operations : operations[k].id = id}

\* C30: updateOperation, toggleOperation and removeOperation act on the
\* operation with the given id only: the others and the order stay,
\* updateOperation keeps the id, kind and flag of its target and sets the
\* fields of the update, toggleOperation flips the flag alone; with an id no
\* operation has, the pipeline stays while a snapshot is still committed:
\* the snapshots after the index are dropped and the index is at the tip.
C30_ActOnTargetOnly ==
    \A id \in Ids(operations) \cup {MissingId} :
        LET toggled == toggleOperation(Store, id, now)
            removed == removeOperation(Store, id, now)
        IN /\ \A u \in ConfigUpdateInputs(TypeOfId(operations, id)) :
                 LET updated == updateOperation(Store, id, u, now)
                 IN /\ Len(updated.operations) = Len(operations)
                    /\ \A k \in DOMAIN operations :
                          IF k \in Targets(id)
                          THEN /\ updated.operations[k].id = operations[k].id
                               /\ updated.operations[k].type = operations[k].type
                               /\ updated.operations[k].enabled = operations[k].enabled
                               /\ DOMAIN updated.operations[k].config
                                     = DOMAIN operations[k].config \cup DOMAIN u
                               /\ \A f \in DOMAIN updated.operations[k].config :
                                     updated.operations[k].config[f]
                                        = IF f \in DOMAIN u THEN u[f]
                                          ELSE operations[k].config[f]
                          ELSE updated.operations[k] = operations[k]
                    /\ id = MissingId =>
                          /\ updated.operations = operations
                          /\ updated.history
                                = Append(SubSeq(history, 1, historyIndex + 1), operations)
                          /\ updated.historyIndex = Len(updated.history) - 1
           /\ Len(toggled.operations) = Len(operations)
           /\ \A k \in DOMAIN operations :
                 IF k \in Targets(id)
                 THEN toggled.operations[k]
                         = [id |-> operations[k].id, type |-> operations[k].type,
                            enabled |-> ~operations[k].enabled,
                            config |-> operations[k].config]
                 ELSE toggled.operations[k] = operations[k]
           /\ Len(removed.operations) = Len(operations) - Cardinality(Targets(id))
           /\ \A k \in Targets(id) : removed.operations = WithoutAt(operations, k)
           /\ id = MissingId =>
                 /\ toggled.operations = operations
                 /\ removed.operations = operations
                 /\ toggled.history = Append(SubSeq(history, 1, historyIndex + 1), operations)
                 /\ removed.history = toggled.history
                 /\ toggled.historyIndex = Len(toggled.history) - 1
                 /\ removed.historyIndex = Len(removed.history) - 1

\* three operations below the tip of the history: a command with an unknown
\* id drops the redo snapshots, one on the middle operation leaves the rest
C30_Witness ==
    /\ Len(operations) = 3
    /\ historyIndex < Len(history) - 1
    /\ history[historyIndex + 2] # operations
    /\ toggleOperation(Store, operations[2].id, now).operations # operations
    /\ Len(removeOperation(Store, MissingId, now).history) < Len(history)

(***************************************************************************)
(* Properties of the fold over the pipeline                                *)
(***************************************************************************)
\* the pipeline with its disabled operations deleted
EnabledOnly(ops) == SelectSeq(ops, LAMBDA op : op.enabled)

\* what one enabled operation makes of the outcome of the operations before it
FoldStep(op, before, file, index, clock) ==
    IF before.thrown THEN before
    ELSE IF Throws(op)
    THEN [thrown |-> TRUE, type |-> op.type,
          name |-> before.name, extension |-> before.extension]
    ELSE IF op.type = "extension"
    THEN [before EXCEPT !.extension = applyExtension(before.extension, op.config)]
    ELSE [before EXCEPT !.name = ApplyToName(op, before.name, file, index, clock)]

\* C22: evaluating the live pipeline gives every file the result that the
\* pipeline with all disabled operations deleted gives it, and the enabled
\* operations are applied in list order: the outcome of the fold is the last
\* enabled operation applied to the outcome of the enabled operations before it.
C22_DisabledAbsentFromFold ==
    LET enabledOps == EnabledOnly(operations)
    IN /\ processFiles(files, operations, now) = processFiles(files, enabledOps, now)
       /\ enabledOps # <<>> =>
              \A i \in DOMAIN files :
                  LET base == BaseName(files[i].originalName)
                      fold(ops) == FoldOperations(ops, base, files[i].extension,
                                                  files[i], i - 1, now)
                      front == SubSeq(enabledOps, 1, Len(enabledOps) - 1)
                  IN fold(enabledOps) =
                        FoldStep(enabledOps[Len(enabledOps)], fold(front),
                                 files[i], i - 1, now)

\* a disabled operation stands between two enabled ones; applying it, and
\* applying the enabled ones in the other order, would both give other names
C22_Witness ==
    /\ Len(operations) = 3
    /\ operations[1].enabled /\ ~operations[2].enabled /\ operations[3].enabled
    /\ files # <<>>
    /\ files[1].isValid
    /\ files[1].newName # files[1].originalName
    /\ LET all == [k \in 1..3 |-> [operations[k] EXCEPT !.enabled = TRUE]]
           swapped == <<operations[3], operations[2], operations[1]>>
       IN /\ processFiles(files, all, now)[1].newName # files[1].newName
          /\ processFiles(files, swapped, now)[1].newName # files[1].newName

(***************************************************************************)
(* Properties of the affix counter                                         *)
(***************************************************************************)
\* the one enabled prefix or suffix operation of a pipeline that holds
\* nothing else, its counter switched on
OnlyCounterAffix ==
    /\ Len(operations) = 1
    /\ operations[1].type \in {"prefix", "suffix"}
    /\ operations[1].enabled
    /\ operations[1].config.addCounter

\* C23: under a prefix or suffix operation with addCounter set, the text put
\* into the name of the file at 0-based position i is the configured text
\* with its first [N] replaced by the zero-padded counter
\* counterStart + i*counterStep if the text holds [N], and otherwise the
\* configured text immediately followed by the zero-padded counter.
C23_CounterPlacement ==
    OnlyCounterAffix =>
        \A i \in DOMAIN files :
            LET config == operations[1].config
                counter == Rendered(config.counterStart + ((i - 1) * config.counterStep),
                                    config.counterPadding)
                inserted == IF includes(config.text, CounterToken)
                            THEN ReplaceFirst(config.text, CounterToken, counter, FALSE)
                            ELSE config.text \o counter
                base == BaseName(files[i].originalName)
            IN files[i].newName =
                  IF config.position = "prefix"
                  THEN inserted \o base \o files[i].extension
                  ELSE base \o inserted \o files[i].extension

(***************************************************************************)
(* Properties of the removal of a range                                    *)
(***************************************************************************)
\* s from its 0-based position i on, without the positions in [start, end)
RECURSIVE KeepOutside(_, _, _, _)
KeepOutside(s, start, end, i) ==
    IF i >= Len(s) THEN <<>>
    ELSE (IF start <= i /\ i < end THEN <<>> ELSE <<s[i + 1]>>)
            \o KeepOutside(s, start, end, i + 1)

\* the one enabled remove-chars operation of a pipeline that holds nothing
\* else, in range mode with indices that are not negative
OnlyRemoveRange ==
    /\ Len(operations) = 1
    /\ operations[1].type = "remove-chars"
    /\ operations[1].enabled
    /\ operations[1].config.mode = "range"
    /\ operations[1].config.startIndex >= 0
    /\ operations[1].config.endIndex >= 0

\* C24: under a remove-chars operation in range mode with non-negative indices
\* start and end, the base name of every file is its original base name with
\* exactly the positions i, start <= i < end, removed: it is never longer than
\* the original base name and equals it when the range is empty.
C24_RemoveRange ==
    OnlyRemoveRange =>
        \A i \in DOMAIN files :
            LET config == operations[1].config
                base == BaseName(files[i].originalName)
                kept == KeepOutside(base, config.startIndex, config.endIndex, 0)
            IN /\ files[i].newName = kept \o files[i].extension
               /\ Len(files[i].newName) <= Len(base) + Len(files[i].extension)
               /\ config.endIndex <= config.startIndex =>
                      files[i].newName = base \o files[i].extension

(***************************************************************************)
(* Properties of the empty-name rule                                       *)
(***************************************************************************)
\* the outcome of the loop of processFileName for the file at position i
Folded(i) ==
    FoldOperations(operations, BaseName(files[i].originalName), files[i].extension,
                   files[i], i - 1, now)

\* the base component the file at position i has after the fold: the name
\* the loop ends with, or the base of the original name that a failed
\* evaluation proposes
FoldedBase(i) ==
    IF Folded(i).thrown THEN BaseName(files[i].originalName) ELSE Folded(i).name

\* no character of s is other than whitespace
Blank(s) == \A k \in DOMAIN s : IsSpace(s[k])

\* C25 as stated: a file whose base after the fold is empty or whitespace-only
\* is invalid whatever its extension; its reason is the empty-name reason
\* when its proposed name has no illegal character and is not a duplicate;
\* a file whose folded base has a non-whitespace character never has the
\* empty-name reason.
C25_EmptyName ==
    \A i \in DOMAIN files :
        /\ Blank(FoldedBase(i)) =>
               /\ ~files[i].isValid
               /\ ( /\ ~HasIllegalCharacter(files[i].newName)
                    /\ NameCount(files, files[i].newName) = 1 )
                  => files[i].errorMessage = "Filename cannot be empty"
        /\ ~Blank(FoldedBase(i)) =>
               files[i].errorMessage # "Filename cannot be empty"

\* C25 amended: a file whose base after the fold is empty or whitespace-only
\* is invalid whatever its extension; its reason is the empty-name reason
\* when no operation failed while the file was evaluated, its proposed name
\* has no illegal character and is not a duplicate; a file whose folded base
\* has a non-whitespace character never has the empty-name reason.
C25_EmptyNameUnlessFailed ==
    \A i \in DOMAIN files :
        /\ Blank(FoldedBase(i)) =>
               /\ ~files[i].isValid
               /\ ( /\ ~Folded(i).thrown
                    /\ ~HasIllegalCharacter(files[i].newName)
                    /\ NameCount(files, files[i].newName) = 1 )
                  => files[i].errorMessage = "Filename cannot be empty"
        /\ ~Blank(FoldedBase(i)) =>
               files[i].errorMessage # "Filename cannot be empty"

\* a pipeline emptied the base of one file, which keeps an extension and is
\* invalid for the empty name, next to a file whose base it left non-blank
C25_Witness ==
    /\ Len(files) = 2
    /\ \E i \in DOMAIN operations : operations[i].enabled
    /\ files[1].newName # files[1].originalName
    /\ FoldedBase(1) = <<>>
    /\ files[1].extension # <<>>
    /\ ~files[1].isValid
    /\ files[1].errorMessage = "Filename cannot be empty"
    /\ ~Blank(FoldedBase(2))

(***************************************************************************)
(* Properties of the export                                                *)
(***************************************************************************)
\* the positions of the files an export writes: those with isValid true
ValidPositions == {k \in DOMAIN files : files[k].isValid}

\* C26: in every reachable state the files an export would write, all those
\* with isValid true, have pairwise distinct proposed names, none of which
\* holds an illegal character or has an empty base; the entries handed to the
\* archive are these files and no others; and the export is enabled only when
\* a valid file has a proposed name other than its original name.
C26_ExportEntries ==
    LET entries == handleExport(files)
    IN /\ \A i, j \in ValidPositions : i # j => files[i].newName # files[j].newName
       /\ \A k \in ValidPositions :
              /\ ~HasIllegalCharacter(files[k].newName)
              /\ ~Blank(FoldedBase(k))
       /\ \A i, j \in DOMAIN entries : i # j => entries[i].name # entries[j].name
       /\ canExport(files) =>
              /\ Len(entries) = Cardinality(ValidPositions)
              /\ {entries[i].name : i \in DOMAIN entries}
                    = {files[k].newName : k \in ValidPositions}
              /\ \E k \in ValidPositions : files[k].newName # files[k].originalName
       /\ ~canExport(files) => entries = <<>>

\* an export of one renamed file that leaves out a file with an illegal name
C26_Witness ==
    /\ Len(files) = 2
    /\ canExport(files)
    /\ Len(handleExport(files)) = 1
    /\ handleExport(files)[1].name # handleExport(files)[1].input.name
    /\ \E k \in DOMAIN files : ~files[k].isValid /\ HasIllegalCharacter(files[k].newName)

(***************************************************************************)
(* Properties of the validity flag                                         *)
(***************************************************************************)
\* C27: in every reachable state every queued file has isValid false if and
\* only if it has an errorMessage; a valid file carries no message left over
\* from an earlier evaluation.
C27_InvalidIffMessage ==
    \A i \in DOMAIN files :
        /\ files[i].isValid <=> files[i].errorMessage = undefined
        /\ ~files[i].isValid =>
               files[i].errorMessage \in
                   {"Filename contains invalid characters", "Filename cannot be empty",
                    "Duplicate filename"}
                      \cup {"Error in " \o operations[k].type : k \in DOMAIN operations}

\* a file that is invalid without the pipeline is valid under it, with no
\* message, next to a file that is invalid under it
C27_Witness ==
    /\ Len(files) = 2
    /\ operations # <<>>
    /\ \E i, j \in DOMAIN files :
           /\ files[i].isValid
           /\ files[i].errorMessage = undefined
           /\ ~processFiles(files, <<>>, now)[i].isValid
           /\ ~files[j].isValid
====
